---- MODULE Spec2Model ----
(***************************************************************************)
(* A model of the UC course-catalogue extractor (src/src/pdf_extractor):   *)
(* the Course record and its error list, CourseExtractor's per-document    *)
(* and per-directory extraction, ContentParser.extract_evaluacion, the     *)
(* bibliography segmentation of BibliographyParser and the strategy        *)
(* dispatch of BibliographyCleaner.clean_entry.                            *)
(*                                                                         *)
(* Text is a sequence of one-character strings, so that strip, len, the    *)
(* regular expressions and the slices of the Python code are computed      *)
(* character by character.  Confidences are Python floats; every value     *)
(* the code can produce is a multiple of 0.1 or 0.95, and they are kept    *)
(* here in hundredths (0.95 is 95), with the comparisons of the code.      *)
(***************************************************************************)
EXTENDS Integers, Sequences, FiniteSets, TLC

VARIABLES
    \* --- one Course object (SpecCourse) ---
    course,      \* the Course record under observation
    cstage,      \* "new" | "extracted" | "touched" (add_error called by a client)
    ctext,       \* what _extract_text_from_pdf returned for the call
    craise,      \* which section extraction raised in the call (0: none)
    cescaped,    \* TRUE when an exception left extract_from_file
    \* --- one extract_from_directory call (SpecBatch) ---
    pdf_files,   \* list(directory_path.glob(pattern))
    courses,     \* the list being built
    bi,          \* how many files the for loop has taken
    bpc,         \* "loop" | "done" | "escaped"
    returned,    \* the list handed back to the caller
    \* --- one extract_evaluacion call (SpecEval) ---
    ev_text,     \* the text of the document
    evaluacion,  \* the Evaluacion returned
    epc,         \* "call" | "done"
    \* --- one clean_entry call (SpecBib) ---
    arg_raw_text,     \* the argument raw_text
    publisher_order,  \* the order in which this process iterates self.publishers
    clean_pc,         \* "call" | "loop" | "after" | "done"
    norm_text,        \* text, the normalized raw_text
    next_strategy,    \* the index in `strategies` of the next pass of the loop
    best_result,      \* a tuple of no result (None) or of one
    best_confidence,
    results,          \* history: the strategy each pass called and what came of it
    clean_result,     \* kind "return" with the entry, or "raise"
    \* --- one _parse_bibliography_entries call (SpecBib) ---
    sub_text,     \* the text of the subsection
    sub_lines,    \* the list `lines`
    sub_i,        \* how many lines the loop has taken
    sub_current,  \* current_entry
    sub_entries,  \* entries; the list returned once sub_pc is "done"
    sub_pc,       \* "call" | "loop" | "done"
    \* --- one extract_contenidos call (SpecCont) ---
    cont_text,     \* the text of the document
    cont_lines,    \* the list `lines`
    cont_i,        \* how many lines the loop has taken
    contenidos,    \* the dict being built; the dict returned once cont_pc is "done"
    current_main,
    current_sub,
    cont_pc,       \* "call" | "loop" | "done"
    \* --- the extractions of one document's sections (SpecSec) ---
    sec_text,      \* the text of the document
    sec_spans,     \* the spans located so far, in the order of the sections
    sec_pc,        \* "loop" | "done"
    \* --- one Bibliography object and its clients (SpecBlist) ---
    bibliography,  \* the Bibliography
    total_read,    \* what the last read of total_entries returned
    blist_pc,      \* "live"
    \* --- one call of get_extraction_report (SpecReport) ---
    rep_courses,   \* the argument courses
    rep_i,         \* courses the current loop has passed
    all_errors,    \* the list all_errors
    error_counts,  \* the dict error_counts
    facultades,    \* the dict facultades
    rep_result,    \* what the call returned or raised
    rep_pc,        \* "errors", "facultades", "done"
    \* --- one call of BibliographyParser.parse (SpecParse) ---
    bp_text,       \* the argument text
    bp_section,    \* bib_section
    bp_minima_text, \* minima_text
    bp_complementaria_text, \* complementaria_text
    bp_bibliography, \* the Bibliography being filled
    bp_pc,         \* "call", "split", "minima", "complementaria", "return", "done"
    \* --- one call of JSONExporter.export_batch (SpecExport) ---
    exp_courses,   \* the argument courses
    exp_i,         \* courses taken by the loop
    courses_dict,  \* courses_dict, the items in insertion order
    exp_file,      \* the file at output_path
    exp_pc,        \* "call", "loop", "dump", "done", "raised"
    \* --- one call of UCCatalogScraper.run (SpecScrape) ---
    found_links,   \* what the catalog page links to
    existing_files, \* the names of the files in OUTPUT_DIR
    catalog_links, \* catalog_links
    run_i,         \* links taken by the loop
    tally,         \* successful_downloads and failed_downloads
    attempted,     \* the urls given to download_page_as_pdf, in the order of the calls
    rendered,      \* the urls a browser was launched for, in the order of the launches
    run_result,    \* what run returned
    run_pc         \* "call", "links", "loop", "done"

vars == <<course, cstage, ctext, craise, cescaped, pdf_files, courses, bi, bpc, returned,
          ev_text, evaluacion, epc,
          arg_raw_text, publisher_order, clean_pc, norm_text, next_strategy, best_result,
          best_confidence, results, clean_result,
          sub_text, sub_lines, sub_i, sub_current, sub_entries, sub_pc,
          cont_text, cont_lines, cont_i, contenidos, current_main, current_sub, cont_pc,
          sec_text, sec_spans, sec_pc,
          bibliography, total_read, blist_pc,
          rep_courses, rep_i, all_errors, error_counts, facultades, rep_result, rep_pc,
          bp_text, bp_section, bp_minima_text, bp_complementaria_text, bp_bibliography, bp_pc,
          exp_courses, exp_i, courses_dict, exp_file, exp_pc,
          found_links, existing_files, catalog_links, run_i, tally, attempted, rendered, run_result, run_pc>>

courseVars == <<course, cstage, ctext, craise, cescaped>>
batchVars == <<pdf_files, courses, bi, bpc, returned>>
evalVars == <<ev_text, evaluacion, epc>>
cleanVars == <<arg_raw_text, publisher_order, clean_pc, norm_text, next_strategy, best_result,
               best_confidence, results, clean_result>>
subVars == <<sub_text, sub_lines, sub_i, sub_current, sub_entries, sub_pc>>
contVars == <<cont_text, cont_lines, cont_i, contenidos, current_main, current_sub, cont_pc>>
secVars == <<sec_text, sec_spans, sec_pc>>
blistVars == <<bibliography, total_read, blist_pc>>
reportVars == <<rep_courses, rep_i, all_errors, error_counts, facultades, rep_result, rep_pc>>
parseVars == <<bp_text, bp_section, bp_minima_text, bp_complementaria_text, bp_bibliography, bp_pc>>
exportVars == <<exp_courses, exp_i, courses_dict, exp_file, exp_pc>>
scrapeVars == <<found_links, existing_files, catalog_links, run_i, tally, attempted, rendered, run_result, run_pc>>

\* the variables of the specifications up to SpecBib, and those after them
oldVars == <<courseVars, batchVars, evalVars, cleanVars, subVars>>
docVars == <<contVars, secVars, blistVars, reportVars, parseVars, exportVars, scrapeVars>>
notContVars == <<oldVars, secVars, blistVars, reportVars, parseVars, exportVars, scrapeVars>>
notSecVars == <<oldVars, contVars, blistVars, reportVars, parseVars, exportVars, scrapeVars>>
notBlistVars == <<oldVars, contVars, secVars, reportVars, parseVars, exportVars, scrapeVars>>
notReportVars == <<oldVars, contVars, secVars, blistVars, parseVars, exportVars, scrapeVars>>
notParseVars == <<oldVars, contVars, secVars, blistVars, reportVars, exportVars, scrapeVars>>
notExportVars == <<oldVars, contVars, secVars, blistVars, reportVars, parseVars, scrapeVars>>
notScrapeVars == <<oldVars, contVars, secVars, blistVars, reportVars, parseVars, exportVars>>

(***************************************************************************)
(* Characters and strings                                                  *)
(***************************************************************************)
\* Python's None, distinct from every text (texts hold one-character strings)
None == <<"None">>

\* str.strip() and \s: the whitespace characters of the modelled alphabet
Whitespace == {" ", "\n", "\t"}

IsSpace(c) == c \in Whitespace

RECURSIVE LStripIn(_, _)
LStripIn(s, chars) ==
    IF s = <<>> THEN s
    ELSE IF Head(s) \in chars THEN LStripIn(Tail(s), chars) ELSE s

RECURSIVE RStripIn(_, _)
RStripIn(s, chars) ==
    IF s = <<>> THEN s
    ELSE IF s[Len(s)] \in chars THEN RStripIn(SubSeq(s, 1, Len(s) - 1), chars) ELSE s

\* s.strip(chars)
StripChars(s, chars) == RStripIn(LStripIn(s, chars), chars)

\* s.strip()
Strip(s) == StripChars(s, Whitespace)

\* bool(x) for an Optional[str]
Truthy(t) == t # None /\ t # <<>>

RECURSIVE JoinWith(_, _)
\* sep.join(parts)
JoinWith(sep, parts) ==
    IF parts = <<>> THEN <<>>
    ELSE IF Len(parts) = 1 THEN parts[1]
    ELSE parts[1] \o sep \o JoinWith(sep, Tail(parts))

RECURSIVE SelectTruthy(_)
SelectTruthy(parts) ==
    IF parts = <<>> THEN <<>>
    ELSE IF Truthy(Head(parts)) THEN <<Head(parts)>> \o SelectTruthy(Tail(parts))
    ELSE SelectTruthy(Tail(parts))

(***************************************************************************)
(* models.py: Course                                                       *)
(***************************************************************************)
\* the value a default_factory / None default leaves in a field
Default == <<"default">>

\* Course(filename=...): the dataclass defaults
Course(filename) ==
    [filename |-> filename,
     extraction_success |-> TRUE,
     extraction_errors |-> <<>>,
     metadata |-> Default,
     descripcion |-> Default,
     resultados_aprendizaje |-> Default,
     contenidos |-> Default,
     metodologias |-> Default,
     evaluacion |-> Default,
     bibliografia |-> Default,
     informacion_institucional |-> Default]

\* a plausible slip: the error is recorded but the flag is left alone
add_error_keeps_flag(c, error) ==
    [c EXCEPT !.extraction_errors = Append(@, error)]

\* Course.add_error
add_error(c, error) ==
    [c EXCEPT !.extraction_errors = Append(@, error),
              !.extraction_success = FALSE]

(***************************************************************************)
(* course_extractor.py: CourseExtractor                                    *)
(***************************************************************************)
\* last index of the whitespace run that starts at i
RECURSIVE SpaceRunEnd(_, _)
SpaceRunEnd(s, i) ==
    IF i < Len(s) /\ IsSpace(s[i + 1]) THEN SpaceRunEnd(s, i + 1) ELSE i

\* re.sub(r'\n\s*\n', '\n\n', s) from index i on: a newline, the longest
\* whitespace run after it cut back to its last newline
RECURSIVE SubBlankLines(_, _)
SubBlankLines(s, i) ==
    IF i > Len(s) THEN <<>>
    ELSE IF s[i] = "\n"
         THEN LET e == SpaceRunEnd(s, i)
                  nl == {j \in (i + 1)..e : s[j] = "\n"}
              IN IF nl = {} THEN <<s[i]>> \o SubBlankLines(s, i + 1)
                 ELSE LET j == CHOOSE x \in nl : \A y \in nl : y <= x
                      IN <<"\n", "\n">> \o SubBlankLines(s, j + 1)
         ELSE <<s[i]>> \o SubBlankLines(s, i + 1)

\* re.sub(r' +', ' ', s) from index i on
RECURSIVE SubSpaces(_, _)
SubSpaces(s, i) ==
    IF i > Len(s) THEN <<>>
    ELSE IF s[i] = " " /\ i > 1 /\ s[i - 1] = " " THEN SubSpaces(s, i + 1)
    ELSE <<s[i]>> \o SubSpaces(s, i + 1)

\* CourseExtractor._clean_text
_clean_text(text) == Strip(SubSpaces(SubBlankLines(text, 1), 1))

\* the literal "\n\n--- PAGINA {} ---\n\n" (join never formats the braces)
PageSeparator ==
    <<"\n", "\n", "-", "-", "-", " ", "P", "A", "G", "I", "N", "A", " ",
      "{", "}", " ", "-", "-", "-", "\n", "\n">>

\* CourseExtractor._extract_text_from_pdf.  A pdf is [readable, pages]:
\* readable is FALSE when pdfplumber.open or extract_text raises, pages are
\* the values of page.extract_text() (None, '' or a text).
_extract_text_from_pdf(pdf) ==
    IF ~pdf.readable THEN None                       \* except Exception: return None
    ELSE LET text_parts == SelectTruthy(pdf.pages)
         IN IF text_parts = <<>> THEN None
            ELSE _clean_text(JoinWith(PageSeparator, text_parts))

\* the section extractions of extract_from_file, in the order of the code
Steps ==
    <<"metadata", "descripcion", "resultados_aprendizaje", "contenidos",
      "metodologias", "evaluacion", "bibliografia", "informacion_institucional">>

NSteps == Len(Steps)

\* the value a section parser returns for a text
Parsed(step, text) == <<step, text>>

\* step k of the try block runs to its end when no earlier step raised
StepRan(k, raiseAt) == raiseAt = 0 \/ k < raiseAt

\* lines 53-76: each assignment, while no parser raises
RunSteps(c, text, raiseAt) ==
    [c EXCEPT
       !.metadata = IF StepRan(1, raiseAt) THEN Parsed(Steps[1], text) ELSE @,
       !.descripcion = IF StepRan(2, raiseAt) THEN Parsed(Steps[2], text) ELSE @,
       !.resultados_aprendizaje = IF StepRan(3, raiseAt) THEN Parsed(Steps[3], text) ELSE @,
       !.contenidos = IF StepRan(4, raiseAt) THEN Parsed(Steps[4], text) ELSE @,
       !.metodologias = IF StepRan(5, raiseAt) THEN Parsed(Steps[5], text) ELSE @,
       !.evaluacion = IF StepRan(6, raiseAt) THEN Parsed(Steps[6], text) ELSE @,
       !.bibliografia = IF StepRan(7, raiseAt) THEN Parsed(Steps[7], text) ELSE @,
       !.informacion_institucional = IF StepRan(8, raiseAt) THEN Parsed(Steps[8], text) ELSE @]

NoTextError == "No se pudo extraer texto del PDF"

\* a plausible slip: the early return of line 51 is missing
TryBlockNoReturn(c, text, raiseAt) ==
    LET c1 == IF ~Truthy(text) THEN add_error(c, NoTextError) ELSE c
    IN [kind |-> IF raiseAt = 0 THEN "fall" ELSE "raise",
        course |-> RunSteps(c1, text, raiseAt),
        exc |-> IF raiseAt = 0 THEN "" ELSE Steps[raiseAt]]

\* the try block, lines 46-83: how it ends and the course it leaves.
\* kind "return" is the early return of line 51, "fall" the end of the block,
\* "raise" an exception of the section parser raiseAt.
TryBlock(c, text, raiseAt) ==
    IF ~Truthy(text)
    THEN [kind |-> "return", course |-> add_error(c, NoTextError), exc |-> ""]
    ELSE [kind |-> IF raiseAt = 0 THEN "fall" ELSE "raise",
          course |-> RunSteps(c, text, raiseAt),
          exc |-> IF raiseAt = 0 THEN "" ELSE Steps[raiseAt]]

\* a plausible slip: no except clause, the exception goes on
ExceptClauseMissing(r) == r

\* a plausible slip: the exception is caught and only logged
ExceptClauseOnlyLogs(r) ==
    IF r.kind = "raise" THEN [kind |-> "fall", course |-> r.course, exc |-> ""] ELSE r

\* except Exception as e, lines 85-88
ExceptClause(r) ==
    IF r.kind = "raise"
    THEN [kind |-> "fall",
          course |-> add_error(r.course, <<"Error procesando", r.course.filename, r.exc>>),
          exc |-> ""]
    ELSE r

\* CourseExtractor.extract_from_file; the result is [kind, course] with kind
\* "return" (a Course is handed back) or "raise" (an exception reaches the caller)
extract_from_file(pdf_path, pdf, raiseAt) ==
    LET c == Course(pdf_path)
        r == ExceptClause(TryBlock(c, _extract_text_from_pdf(pdf), raiseAt))
    IN [kind |-> IF r.kind = "raise" THEN "raise" ELSE "return",
        course |-> r.course]

\* a plausible slip: only the documents that succeeded are kept
for_body_keeps_successes(cs, pdf_file, pdf, raiseAt) ==
    LET r == extract_from_file(pdf_file, pdf, raiseAt)
    IN [kind |-> r.kind,
        courses |-> IF r.kind = "return" /\ r.course.extraction_success
                    THEN Append(cs, r.course) ELSE cs]

\* extract_from_directory, lines 108-111: one turn of the for loop
for_body(cs, pdf_file, pdf, raiseAt) ==
    LET r == extract_from_file(pdf_file, pdf, raiseAt)
    IN [kind |-> r.kind,
        courses |-> IF r.kind = "return" THEN Append(cs, r.course) ELSE cs]

(***************************************************************************)
(* Regular-expression pieces shared by the parsers                         *)
(***************************************************************************)
Digits == {"0", "1", "2", "3", "4", "5", "6", "7", "8", "9"}

UpperLetters ==
    <<"A", "B", "C", "D", "E", "F", "G", "H", "I", "J", "K", "L", "M",
      "N", "O", "P", "Q", "R", "S", "T", "U", "V", "W", "X", "Y", "Z">>

LowerLetters ==
    <<"a", "b", "c", "d", "e", "f", "g", "h", "i", "j", "k", "l", "m",
      "n", "o", "p", "q", "r", "s", "t", "u", "v", "w", "x", "y", "z">>

IsUpper(c) == \E k \in 1..26 : UpperLetters[k] = c
IsLower(c) == \E k \in 1..26 : LowerLetters[k] = c
IsDigit(c) == c \in Digits

\* str.lower() on one character
ToLower(c) ==
    IF IsUpper(c) THEN LowerLetters[CHOOSE k \in 1..26 : UpperLetters[k] = c] ELSE c

\* the literal lit stands at index i of s (re.IGNORECASE when ic)
LitAt(s, i, lit, ic) ==
    /\ i >= 1
    /\ i + Len(lit) - 1 <= Len(s)
    /\ \A k \in 1..Len(lit) :
          IF ic THEN ToLower(s[i + k - 1]) = ToLower(lit[k]) ELSE s[i + k - 1] = lit[k]

\* \s* from index i: the index after the whitespace run
RECURSIVE SkipSpace(_, _)
SkipSpace(s, i) ==
    IF i <= Len(s) /\ IsSpace(s[i]) THEN SkipSpace(s, i + 1) ELSE i

\* \d* from index i: the index after the digit run
RECURSIVE SkipDigits(_, _)
SkipDigits(s, i) ==
    IF i <= Len(s) /\ IsDigit(s[i]) THEN SkipDigits(s, i + 1) ELSE i

\* the smallest element of a non-empty set of indexes
MinOf(S) == CHOOSE x \in S : \A y \in S : x <= y

\* the first index from i on where c stands, 0 when there is none
FirstChar(s, i, c) ==
    LET at == {j \in i..Len(s) : s[j] = c}
    IN IF at = {} THEN 0 ELSE MinOf(at)

DigitValue(c) == CHOOSE v \in 0..9 : <<"0", "1", "2", "3", "4", "5", "6", "7", "8", "9">>[v + 1] = c

RECURSIVE ParseNumber(_)
\* int(digits) and float(digits) of a run of digits
ParseNumber(ds) ==
    IF ds = <<>> THEN 0
    ELSE 10 * ParseNumber(SubSeq(ds, 1, Len(ds) - 1)) + DigitValue(ds[Len(ds)])

(***************************************************************************)
(* models.py: Evaluacion; parsers.py: ContentParser.extract_evaluacion     *)
(***************************************************************************)
\* the character U+2022 of the second pattern
Bullet == "U+2022"

RECURSIVE SumValues(_)
\* sum(items.values())
SumValues(items) ==
    IF DOMAIN items = {} THEN 0
    ELSE LET k == CHOOSE x \in DOMAIN items : TRUE
         IN items[k] + SumValues([x \in DOMAIN items \ {k} |-> items[x]])

\* Evaluacion(): items {}, total_verificado False, suma_porcentajes 0.0
Evaluacion == [items |-> <<>>, total_verificado |-> FALSE, suma_porcentajes |-> 0]

\* a plausible slip: the tolerance compared in percent points, not tenths
verificar_total_wide(e) ==
    LET suma == SumValues(e.items)
        dist == IF suma >= 100 THEN suma - 100 ELSE 100 - suma
    IN [e EXCEPT !.suma_porcentajes = suma, !.total_verificado = (dist < 10)]

\* Evaluacion.verificar_total: abs(suma - 100.0) < 0.1, in tenths
verificar_total(e) ==
    LET suma == SumValues(e.items)
        dist10 == IF suma >= 100 THEN 10 * (suma - 100) ELSE 10 * (100 - suma)
    IN [e EXCEPT !.suma_porcentajes = suma, !.total_verificado = (dist10 < 1)]

\* 'V\s*\.\s*ESTRATEGIAS\s+EVALUATIVAS\s*\n' matched at index i: the index
\* after the match, 0 when it does not match there.  The final \s*\n takes
\* the whitespace run up to its last newline.
EvalHeaderEnd(s, i) ==
    IF ~LitAt(s, i, <<"V">>, TRUE) THEN 0
    ELSE LET dot == SkipSpace(s, i + 1)
         IN IF ~LitAt(s, dot, <<".">>, FALSE) THEN 0
            ELSE LET w1 == SkipSpace(s, dot + 1)
                     lit1 == <<"E", "S", "T", "R", "A", "T", "E", "G", "I", "A", "S">>
                     lit2 == <<"E", "V", "A", "L", "U", "A", "T", "I", "V", "A", "S">>
                 IN IF ~LitAt(s, w1, lit1, TRUE) THEN 0
                    ELSE LET gap == w1 + Len(lit1)
                             w2 == SkipSpace(s, gap)
                         IN IF w2 = gap \/ ~LitAt(s, w2, lit2, TRUE) THEN 0
                            ELSE LET run == w2 + Len(lit2)
                                     stop == SkipSpace(s, run)
                                     nl == {j \in run..(stop - 1) : s[j] = "\n"}
                                 IN IF nl = {} THEN 0
                                    ELSE 1 + CHOOSE x \in nl : \A y \in nl : y <= x

\* the lookahead (?=VI\s*\.\s*BIBLIOGRAF|$) holds at index i ($ without
\* MULTILINE: the end of the text, or just before its final newline)
EvalSectionStops(s, i) ==
    \/ i = Len(s) + 1
    \/ i = Len(s) /\ s[i] = "\n"
    \/ /\ LitAt(s, i, <<"V", "I">>, TRUE)
       /\ LET dot == SkipSpace(s, i + 2)
          IN /\ LitAt(s, dot, <<".">>, FALSE)
             /\ LitAt(s, SkipSpace(s, dot + 1),
                      <<"B", "I", "B", "L", "I", "O", "G", "R", "A", "F">>, TRUE)

\* re.search of the section pattern: group(1), or None without a match
EvalSection(text) ==
    LET starts == {i \in 1..Len(text) : EvalHeaderEnd(text, i) # 0}
    IN IF starts = {} THEN None
       ELSE LET from == EvalHeaderEnd(text, MinOf(starts))
                to == MinOf({e \in from..(Len(text) + 1) : EvalSectionStops(text, e)})
            IN SubSeq(text, from, to - 1)

\* the tail ':\s*(\d+)%' of the three patterns at the colon q: the digits
\* and the index after the match, ok FALSE when it does not match
PercentTail(s, q) ==
    LET d == SkipSpace(s, q + 1)
        e == SkipDigits(s, d)
    IN IF e > d /\ e <= Len(s) /\ s[e] = "%"
       THEN [ok |-> TRUE, pct |-> SubSeq(s, d, e - 1), end |-> e + 1]
       ELSE [ok |-> FALSE, pct |-> <<>>, end |-> 0]

NoMatch == [ok |-> FALSE, nombre |-> <<>>, pct |-> <<>>, end |-> 0]

\* '<marker>\s*([^:]+):\s*(\d+)%' matched at index p: [^:]+ runs to the
\* first colon, and \s* gives one character back when nothing else is left
MarkedItemAt(s, p, marker) ==
    IF ~(p <= Len(s) /\ s[p] = marker) THEN NoMatch
    ELSE LET q == FirstChar(s, p + 1, ":")
             w == SkipSpace(s, p + 1)
             g == IF w < q THEN w ELSE w - 1
         IN IF q = 0 \/ q = p + 1 THEN NoMatch
            ELSE LET t == PercentTail(s, q)
                 IN IF ~t.ok THEN NoMatch
                    ELSE [ok |-> TRUE, nombre |-> SubSeq(s, g, q - 1),
                          pct |-> t.pct, end |-> t.end]

\* '^([^:]+):\s*(\d+)%' with re.MULTILINE matched at index p
LineItemAt(s, p) ==
    IF ~(p <= Len(s) /\ (p = 1 \/ s[p - 1] = "\n")) THEN NoMatch
    ELSE LET q == FirstChar(s, p, ":")
         IN IF q = 0 \/ q = p THEN NoMatch
            ELSE LET t == PercentTail(s, q)
                 IN IF ~t.ok THEN NoMatch
                    ELSE [ok |-> TRUE, nombre |-> SubSeq(s, p, q - 1),
                          pct |-> t.pct, end |-> t.end]

\* the three patterns of lines 275-279, in their order
EvalPatterns == <<"-", Bullet, "^">>

EvalItemAt(s, p, pattern) ==
    IF pattern = "^" THEN LineItemAt(s, p) ELSE MarkedItemAt(s, p, pattern)

RECURSIVE FindAllItems(_, _, _)
\* re.findall(pattern, s, re.MULTILINE) from index pos on: leftmost matches,
\* each search resuming where the last match ended
FindAllItems(s, pos, pattern) ==
    LET at == {p \in pos..Len(s) : EvalItemAt(s, p, pattern).ok}
    IN IF at = {} THEN <<>>
       ELSE LET m == EvalItemAt(s, MinOf(at), pattern)
            IN <<m>> \o FindAllItems(s, m.end, pattern)

\* items[nombre_limpio] = porcentaje_num: a new key or a replaced value
SetItem(items, key, value) ==
    [k \in DOMAIN items \cup {key} |-> IF k = key THEN value ELSE items[k]]

RECURSIVE StoreItems(_, _)
\* lines 283-289 for the matches of one pattern
StoreItems(items, matches) ==
    IF matches = <<>> THEN items
    ELSE StoreItems(SetItem(items, Strip(Head(matches).nombre), ParseNumber(Head(matches).pct)),
                    Tail(matches))

RECURSIVE StorePatterns(_, _, _)
\* lines 281-289: for pattern in patterns
StorePatterns(items, section_text, k) ==
    IF k > Len(EvalPatterns) THEN items
    ELSE StorePatterns(StoreItems(items, FindAllItems(section_text, 1, EvalPatterns[k])),
                       section_text, k + 1)

\* ContentParser.extract_evaluacion
extract_evaluacion(text) ==
    LET section == EvalSection(text)
    IN IF section = None THEN Evaluacion
       ELSE verificar_total(
               [Evaluacion EXCEPT !.items = StorePatterns(<<>>, Strip(section), 1)])

(***************************************************************************)
(* bibliography_cleaner.py: BibliographyCleaner                            *)
(***************************************************************************)
\* Optional[int]: None, or the one-element tuple of the number
NoInt == <<>>
SomeInt(n) == <<n>>

\* characters outside ASCII that the patterns name
LowQuote == "U+201E"
EnDash == "U+2013"
EmDash == "U+2014"

\* \w
IsWord(c) == IsUpper(c) \/ IsLower(c) \/ IsDigit(c) \/ c = "_"

\* CleanBibEntry(...); journal, pages, url and doi are never set
CleanBibEntry(authors, title, year, publisher, raw_text, confidence) ==
    [authors |-> authors, title |-> title, year |-> year, publisher |-> publisher,
     raw_text |-> raw_text, confidence |-> confidence]

\* lines 105-106: '[""' '„"]' is the class of '"' and U+201E; the dashes
NormalizeChar(c) ==
    IF c = LowQuote THEN "\""
    ELSE IF c \in {EnDash, EmDash} THEN "-"
    ELSE c

\* re.sub(r'\s+', ' ', s): of every whitespace run one blank stays
CollapseSpace(s) ==
    LET kept == SelectSeq([i \in 1..Len(s) |-> i],
                          LAMBDA i : ~IsSpace(s[i]) \/ i = 1 \/ ~IsSpace(s[i - 1]))
    IN [k \in 1..Len(kept) |-> IF IsSpace(s[kept[k]]) THEN " " ELSE s[kept[k]]]

RECURSIVE SubQuestionUpper(_, _)
\* re.sub(r'\?\s*([A-Z])', r'"\1', s) from index i on
SubQuestionUpper(s, i) ==
    LET at == {p \in i..Len(s) :
                  /\ s[p] = "?"
                  /\ SkipSpace(s, p + 1) <= Len(s)
                  /\ IsUpper(s[SkipSpace(s, p + 1)])}
    IN IF at = {} THEN SubSeq(s, i, Len(s))
       ELSE SubSeq(s, i, MinOf(at) - 1) \o <<"\"">>
            \o SubQuestionUpper(s, SkipSpace(s, MinOf(at) + 1))

RECURSIVE SubQuestionComma(_, _)
\* re.sub(r'([a-z])\?\s*,', r'\1",', s) from index i on
SubQuestionComma(s, i) ==
    LET at == {p \in i..Len(s) :
                  /\ IsLower(s[p])
                  /\ LitAt(s, p + 1, <<"?">>, FALSE)
                  /\ LitAt(s, SkipSpace(s, p + 2), <<",">>, FALSE)}
    IN IF at = {} THEN SubSeq(s, i, Len(s))
       ELSE SubSeq(s, i, MinOf(at)) \o <<"\"", ",">>
            \o SubQuestionComma(s, SkipSpace(s, MinOf(at) + 2) + 1)

\* BibliographyCleaner._normalize_text
_normalize_text(text) ==
    LET mapped == [i \in 1..Len(text) |-> NormalizeChar(text[i])]
        spaced == Strip(CollapseSpace(mapped))
    IN SubQuestionComma(SubQuestionUpper(spaced, 1), 1)

\* the index of the last character before index i that is no whitespace, 0
\* when there is none
RECURSIVE LastNonSpaceBefore(_, _)
LastNonSpaceBefore(s, i) ==
    IF i <= 1 THEN 0
    ELSE IF IsSpace(s[i - 1]) THEN LastNonSpaceBefore(s, i - 1) ELSE i - 1

\* four digits stand at index i
FourDigitsAt(s, i) ==
    /\ i >= 1
    /\ i + 3 <= Len(s)
    /\ \A k \in 0..3 : IsDigit(s[i + k])

\* '\s*([^<stop>]+)<stop>' from index i: the group runs to the first stop
\* character, and \s* gives one character back when the group would be
\* empty.  [from, to] of the group and the index of the stop; ok FALSE when
\* there is no stop character or nothing before it.
GroupUpTo(s, i, stop) ==
    LET q == FirstChar(s, i, stop)
        w == SkipSpace(s, i)
    IN IF q = 0 \/ q = i THEN [ok |-> FALSE, from |-> 0, to |-> 0]
       ELSE [ok |-> TRUE, from |-> IF w < q THEN w ELSE w - 1, to |-> q - 1]

\* '^([^"]+),\s*"([^"]+)",\s*([^,]+),\s*(\d{4})' searched in text: the four
\* groups, ok FALSE without a match
IeeeMatch(text) ==
    LET no == [ok |-> FALSE, g1 |-> <<>>, g2 |-> <<>>, g3 |-> <<>>, g4 |-> <<>>]
        q1 == FirstChar(text, 1, "\"")
        c1 == LastNonSpaceBefore(text, q1)
    IN IF q1 = 0 \/ c1 < 2 THEN no
       ELSE IF text[c1] # "," THEN no
       ELSE LET q2 == FirstChar(text, q1 + 1, "\"")
            IN IF q2 = 0 \/ q2 = q1 + 1 THEN no
               ELSE IF ~LitAt(text, q2 + 1, <<",">>, FALSE) THEN no
               ELSE LET g3 == GroupUpTo(text, q2 + 2, ",")
                    IN IF ~g3.ok THEN no
                       ELSE LET d == SkipSpace(text, g3.to + 2)
                            IN IF ~FourDigitsAt(text, d) THEN no
                               ELSE [ok |-> TRUE,
                                     g1 |-> SubSeq(text, 1, c1 - 1),
                                     g2 |-> SubSeq(text, q1 + 1, q2 - 1),
                                     g3 |-> SubSeq(text, g3.from, g3.to),
                                     g4 |-> SubSeq(text, d, d + 3)]

\* the end of the line that holds index i: the index before the next newline
LineEnd(s, i) ==
    LET nl == FirstChar(s, i, "\n")
    IN IF nl = 0 THEN Len(s) ELSE nl - 1

\* '\s*(.+)' from index i: \s* takes the whitespace run and gives back
\* until '.' finds a character that is no newline; the start of the group, 0
\* when there is none
RestStart(s, i) ==
    LET w == SkipSpace(s, i)
        at == {j \in i..w : j <= Len(s) /\ s[j] # "\n"}
    IN IF at = {} THEN 0 ELSE CHOOSE x \in at : \A y \in at : y <= x

\* '^([^(]+)\s*\((\d{4})\)\.\s*([^.]+)\.\s*(.+)' searched in text
ApaMatch(text) ==
    LET no == [ok |-> FALSE, g1 |-> <<>>, g2 |-> <<>>, g3 |-> <<>>, g4 |-> <<>>]
        p1 == FirstChar(text, 1, "(")
    IN IF p1 < 2 THEN no
       ELSE IF ~(/\ FourDigitsAt(text, p1 + 1)
                 /\ LitAt(text, p1 + 5, <<")", ".">>, FALSE)) THEN no
       ELSE LET g3 == GroupUpTo(text, p1 + 7, ".")
            IN IF ~g3.ok THEN no
               ELSE LET r == RestStart(text, g3.to + 2)
                    IN IF r = 0 THEN no
                       ELSE [ok |-> TRUE,
                             g1 |-> SubSeq(text, 1, p1 - 1),
                             g2 |-> SubSeq(text, p1 + 1, p1 + 4),
                             g3 |-> SubSeq(text, g3.from, g3.to),
                             g4 |-> SubSeq(text, r, LineEnd(text, r))]

\* '\b(19|20)\d{2}\b' matches at index i
YearAt(s, i) ==
    /\ FourDigitsAt(s, i)
    /\ \/ s[i] = "1" /\ s[i + 1] = "9"
       \/ s[i] = "2" /\ s[i + 1] = "0"
    /\ i = 1 \/ ~IsWord(s[i - 1])
    /\ i + 4 > Len(s) \/ ~IsWord(s[i + 4])

\* re.search(r'\b(19|20)\d{2}\b', s): where the match starts, 0 without one
YearSearch(s) ==
    LET at == {i \in 1..Len(s) : YearAt(s, i)}
    IN IF at = {} THEN 0 ELSE MinOf(at)

\* int(year_match.group()) if year_match else None
YearOf(s) ==
    LET y == YearSearch(s)
    IN IF y = 0 THEN NoInt ELSE SomeInt(ParseNumber(SubSeq(s, y, y + 3)))

\* re.search(r'"([^"]+)"', s): where the match starts, 0 without one
QuotedSearch(s) ==
    LET at == {q \in 1..Len(s) :
                  /\ s[q] = "\""
                  /\ q + 1 <= Len(s)
                  /\ s[q + 1] # "\""
                  /\ FirstChar(s, q + 2, "\"") # 0}
    IN IF at = {} THEN 0 ELSE MinOf(at)

\* where lit first stands in s, 0 when nowhere
FirstLit(s, lit, ic) ==
    LET at == {i \in 1..Len(s) : LitAt(s, i, lit, ic)}
    IN IF at = {} THEN 0 ELSE MinOf(at)

\* self.title_indicators, in the order of the list
title_indicators ==
    << <<"m","a","c","h","i","n","e"," ","l","e","a","r","n","i","n","g">>,
       <<"d","a","t","a"," ","m","i","n","i","n","g">>,
       <<"a","r","t","i","f","i","c","i","a","l"," ","i","n","t","e","l","l","i","g","e","n","c","e">>,
       <<"p","a","t","t","e","r","n"," ","r","e","c","o","g","n","i","t","i","o","n">>,
       <<"s","t","a","t","i","s","t","i","c","a","l"," ","l","e","a","r","n","i","n","g">>,
       <<"d","e","e","p"," ","l","e","a","r","n","i","n","g">>,
       <<"i","n","t","r","o","d","u","c","t","i","o","n"," ","t","o">>,
       <<"h","a","n","d","b","o","o","k"," ","o","f">>,
       <<"f","u","n","d","a","m","e","n","t","a","l","s"," ","o","f">> >>

\* the largest element of a non-empty set of indexes
MaxOf(S) == CHOOSE x \in S : \A y \in S : y <= x

\* where the run of characters outside stops, around index from, begins
ExpandLeft(s, from, stops) ==
    LET before == {j \in 1..(from - 1) : s[j] \in stops}
    IN IF before = {} THEN 1 ELSE MaxOf(before) + 1

\* where the run of characters outside stops, around index to, ends
ExpandRight(s, to, stops) ==
    LET after == {j \in (to + 1)..Len(s) : s[j] \in stops}
    IN IF after = {} THEN Len(s) ELSE MinOf(after) - 1

\* lines 184-196 of _parse_author_year_style: the quoted title, else the
\* stretch without ',' and '.' around the first indicator the text holds
AuthorYearTitle(text) ==
    LET q == QuotedSearch(text)
        found == {k \in 1..Len(title_indicators) : FirstLit(text, title_indicators[k], TRUE) # 0}
    IN IF q # 0 THEN SubSeq(text, q + 1, FirstChar(text, q + 2, "\"") - 1)
       ELSE IF found = {} THEN None
       ELSE LET ind == title_indicators[MinOf(found)]
                at == FirstLit(text, ind, TRUE)
            IN Strip(SubSeq(text, ExpandLeft(text, at, {",", "."}),
                            ExpandRight(text, at + Len(ind) - 1, {",", "."})))

\* the alternatives of '(?:Press|Publishers?|Books?|Ltd|Inc)', an optional
\* final s taken when it is there
PublisherSuffixes ==
    << <<"P","r","e","s","s">>,
       <<"P","u","b","l","i","s","h","e","r","s">>,
       <<"P","u","b","l","i","s","h","e","r">>,
       <<"B","o","o","k","s">>,
       <<"B","o","o","k">>,
       <<"L","t","d">>,
       <<"I","n","c">> >>

\* ',\s*([A-Z][^,]*(?:Press|Publishers?|Books?|Ltd|Inc))' matched at the
\* comma at index c: [from, to] of the group, ok FALSE without a match
PublisherPatternAt(s, c) ==
    LET w == SkipSpace(s, c + 1)
        no == [ok |-> FALSE, from |-> 0, to |-> 0]
    IN IF ~(s[c] = "," /\ w <= Len(s)) THEN no
       ELSE IF ~IsUpper(s[w]) THEN no
       ELSE LET next == FirstChar(s, w, ",")
                last == IF next = 0 THEN Len(s) ELSE next - 1
                at == {t \in (w + 1)..last :
                          \E k \in 1..Len(PublisherSuffixes) : LitAt(s, t, PublisherSuffixes[k], FALSE)}
            IN IF at = {} THEN no
               ELSE LET t == MaxOf(at)
                        k == MinOf({j \in 1..Len(PublisherSuffixes) :
                                       LitAt(s, t, PublisherSuffixes[j], FALSE)})
                    IN [ok |-> TRUE, from |-> w, to |-> t + Len(PublisherSuffixes[k]) - 1]

\* BibliographyCleaner._extract_publisher; order is the order in which the
\* set self.publishers is iterated
_extract_publisher(text, order) ==
    LET known == {k \in 1..Len(order) : FirstLit(text, order[k], TRUE) # 0}
        commas == {c \in 1..Len(text) : PublisherPatternAt(text, c).ok}
    IN IF known # {}
       THEN LET publisher == order[MinOf(known)]
                start == FirstLit(text, publisher, TRUE)
                stops == {".", ",", ";", "\n"}
            IN StripChars(SubSeq(text, ExpandLeft(text, start, stops),
                                 ExpandRight(text, start + Len(publisher) - 1, stops)),
                          {" ", ".", ",", ";"})
       ELSE IF commas # {}
       THEN LET m == PublisherPatternAt(text, MinOf(commas))
            IN Strip(SubSeq(text, m.from, m.to))
       ELSE None

\* the separators of _parse_authors, in the order of the list `patterns`:
\* '\s+and\s+', '\s*,\s*(?=[A-Z])', '\s*;\s*', '\s*&\s*'.  The index after a
\* match of separator k that starts at index p, 0 when none starts there.
SeparatorEnd(s, p, k) ==
    LET e == SkipSpace(s, p)
    IN IF k = 1
       THEN LET f == SkipSpace(s, e + 3)
            IN IF e > p /\ LitAt(s, e, <<"a", "n", "d">>, FALSE) /\ f > e + 3 THEN f ELSE 0
       ELSE IF k = 2
       THEN LET f == SkipSpace(s, e + 1)
            IN IF LitAt(s, e, <<",">>, FALSE) /\ f <= Len(s) /\ IsUpper(s[f]) THEN f ELSE 0
       ELSE IF LitAt(s, e, <<IF k = 3 THEN ";" ELSE "&">>, FALSE) THEN SkipSpace(s, e + 1)
       ELSE 0

RECURSIVE SplitFrom(_, _, _)
\* re.split(separator k, s): the pieces from index b on
SplitFrom(s, b, k) ==
    LET at == {p \in b..Len(s) : SeparatorEnd(s, p, k) # 0}
    IN IF at = {} THEN <<SubSeq(s, b, Len(s))>>
       ELSE <<SubSeq(s, b, MinOf(at) - 1)>> \o SplitFrom(s, SeparatorEnd(s, MinOf(at), k), k)

RECURSIVE SplitAll(_, _)
\* new_authors of one pass of the loop of lines 268-272
SplitAll(authors, k) ==
    IF authors = <<>> THEN <<>>
    ELSE SplitFrom(Head(authors), 1, k) \o SplitAll(Tail(authors), k)

\* re.match(r'^\d+$', s): '$' also stands before a final newline
IsNumber(s) ==
    LET body == IF s # <<>> /\ s[Len(s)] = "\n" THEN SubSeq(s, 1, Len(s) - 1) ELSE s
    IN body # <<>> /\ \A i \in 1..Len(body) : IsDigit(body[i])

\* '\s*\(\d{4}\)' matches from index p on
ParenYearAt(s, p) ==
    LET o == SkipSpace(s, p)
    IN LitAt(s, o, <<"(">>, FALSE) /\ FourDigitsAt(s, o + 1) /\ LitAt(s, o + 5, <<")">>, FALSE)

RECURSIVE SubParenYear(_, _)
\* re.sub(r'\s*\(\d{4}\).*', '', s) from index i on
SubParenYear(s, i) ==
    LET at == {p \in i..Len(s) : ParenYearAt(s, p)}
    IN IF at = {} THEN SubSeq(s, i, Len(s))
       ELSE SubSeq(s, i, MinOf(at) - 1)
            \o SubParenYear(s, LineEnd(s, SkipSpace(s, MinOf(at)) + 6) + 1)

\* the alternatives of '^(Dr|Prof|Mr|Ms|Mrs)\.?\s*'
AuthorTitles ==
    << <<"D", "r">>, <<"P", "r", "o", "f">>, <<"M", "r">>, <<"M", "s">>, <<"M", "r", "s">> >>

\* re.sub(r'^(Dr|Prof|Mr|Ms|Mrs)\.?\s*', '', s, re.IGNORECASE): the fourth
\* argument is the count, so the pattern is matched with case
SubAuthorTitle(s) ==
    LET found == {k \in 1..Len(AuthorTitles) : LitAt(s, 1, AuthorTitles[k], FALSE)}
    IN IF found = {} THEN s
       ELSE LET e == 1 + Len(AuthorTitles[MinOf(found)])
                d == IF LitAt(s, e, <<".">>, FALSE) THEN e + 1 ELSE e
            IN SubSeq(s, SkipSpace(s, d), Len(s))

RECURSIVE CleanAuthors(_)
\* the loop of lines 276-284
CleanAuthors(authors) ==
    IF authors = <<>> THEN <<>>
    ELSE LET author == StripChars(Head(authors), {" ", ".", ",", ";", "(", ")"})
             cleaned == SubAuthorTitle(SubParenYear(author, 1))
         IN (IF Len(author) > 2 /\ ~IsNumber(author) /\ cleaned # <<>> THEN <<cleaned>> ELSE <<>>)
            \o CleanAuthors(Tail(authors))

\* list[:n]
FirstN(list, n) == SubSeq(list, 1, IF Len(list) < n THEN Len(list) ELSE n)

\* BibliographyCleaner._parse_authors
_parse_authors(authors_str) ==
    IF authors_str = <<>> THEN <<>>
    ELSE LET stripped == StripChars(authors_str, {" ", ".", ",", ";"})
             pieces == SplitAll(SplitAll(SplitAll(SplitAll(<<stripped>>, 1), 2), 3), 4)
         IN FirstN(CleanAuthors(pieces), 5)

RECURSIVE Words(_, _)
\* s.split() from index i on
Words(s, i) ==
    LET b == SkipSpace(s, i)
        ends == {j \in b..Len(s) : IsSpace(s[j])}
        e == IF ends = {} THEN Len(s) ELSE MinOf(ends) - 1
    IN IF b > Len(s) THEN <<>> ELSE <<SubSeq(s, b, e)>> \o Words(s, e + 1)

\* re.match(r'^[A-Z][a-z]+,?$', word)
IsSurname(word) ==
    LET body == IF word # <<>> /\ word[Len(word)] = "," THEN SubSeq(word, 1, Len(word) - 1) ELSE word
    IN /\ Len(body) >= 2
       /\ IsUpper(body[1])
       /\ \A i \in 2..Len(body) : IsLower(body[i])

\* re.match(r'^[A-Z]\.?$', word)
IsInitial(word) ==
    \/ Len(word) = 1 /\ IsUpper(word[1])
    \/ Len(word) = 2 /\ IsUpper(word[1]) /\ word[2] = "."

RECURSIVE BasicAuthorsLoop(_, _, _)
\* the loop of lines 298-315 over the remaining words
BasicAuthorsLoop(words, authors, current_author) ==
    LET flush == IF current_author = <<>> THEN authors
                 ELSE Append(authors, JoinWith(<<" ">>, current_author))
    IN IF words = <<>> THEN flush
       ELSE LET word == Head(words)
            IN IF IsSurname(word)
               THEN BasicAuthorsLoop(Tail(words), flush, <<RStripIn(word, {","})>>)
               ELSE IF IsInitial(word) \/ (IsUpper(word[1]) /\ Len(word) < 15)
               THEN BasicAuthorsLoop(Tail(words), authors, Append(current_author, word))
               ELSE flush

\* BibliographyCleaner._extract_basic_authors
_extract_basic_authors(text) ==
    FirstN(BasicAuthorsLoop(FirstN(Words(text, 1), 10), <<>>, <<>>), 3)

\* self.publishers, written in the order of the source; the order in which
\* the set is iterated is an input of _extract_publisher
publishers ==
    << <<"s","p","r","i","n","g","e","r">>,
       <<"w","i","l","e","y">>,
       <<"e","l","s","e","v","i","e","r">>,
       <<"m","i","t"," ","p","r","e","s","s">>,
       <<"c","a","m","b","r","i","d","g","e"," ","u","n","i","v","e","r","s","i","t","y"," ","p","r","e","s","s">>,
       <<"o","x","f","o","r","d"," ","u","n","i","v","e","r","s","i","t","y"," ","p","r","e","s","s">>,
       <<"i","e","e","e">>,
       <<"a","c","m">>,
       <<"p","e","a","r","s","o","n">>,
       <<"o","'","r","e","i","l","l","y">>,
       <<"c","r","c"," ","p","r","e","s","s">>,
       <<"t","a","y","l","o","r"," ","&"," ","f","r","a","n","c","i","s">>,
       <<"s","a","g","e">>,
       <<"a","c","a","d","e","m","i","c"," ","p","r","e","s","s">> >>

\* confidences are kept in hundredths: 0.95 of line 133, 0.9 of line 163.
\* The sums of _parse_author_year_style are the floats 0.3 .. 1.0, of which
\* only 1.0 is above 0.9 and only 0.9 equals 0.9.

\* a plausible slip: the groups of title and publisher taken for one another
_parse_ieee_style_swapped(text) ==
    LET match == IeeeMatch(text)
    IN IF match.ok
       THEN CleanBibEntry(_parse_authors(Strip(match.g1)), Strip(match.g3),
                          SomeInt(ParseNumber(match.g4)), Strip(match.g2), None, 95)
       ELSE CleanBibEntry(<<>>, None, NoInt, None, None, 0)

\* BibliographyCleaner._parse_ieee_style
_parse_ieee_style(text) ==
    LET match == IeeeMatch(text)
    IN IF match.ok
       THEN CleanBibEntry(_parse_authors(Strip(match.g1)), Strip(match.g2),
                          SomeInt(ParseNumber(match.g4)), Strip(match.g3), None, 95)
       ELSE CleanBibEntry(<<>>, None, NoInt, None, None, 0)

\* a plausible slip: the title taken from the last group
_parse_apa_style_last_group(text) ==
    LET match == ApaMatch(text)
    IN IF match.ok
       THEN CleanBibEntry(_parse_authors(Strip(match.g1)), Strip(match.g4),
                          SomeInt(ParseNumber(match.g2)), Strip(match.g4), None, 90)
       ELSE CleanBibEntry(<<>>, None, NoInt, None, None, 0)

\* BibliographyCleaner._parse_apa_style
_parse_apa_style(text) ==
    LET match == ApaMatch(text)
    IN IF match.ok
       THEN CleanBibEntry(_parse_authors(Strip(match.g1)), Strip(match.g3),
                          SomeInt(ParseNumber(match.g2)), Strip(match.g4), None, 90)
       ELSE CleanBibEntry(<<>>, None, NoInt, None, None, 0)

\* a plausible slip: the year worth 0.3 and the sum not capped
_parse_author_year_style_uncapped(text, order) ==
    LET year_match == YearSearch(text)
        title_match == QuotedSearch(text)
        title == AuthorYearTitle(text)
        publisher == _extract_publisher(text, order)
        authors_text == IF year_match # 0 THEN SubSeq(text, 1, year_match - 1)
                        ELSE IF title_match # 0 THEN SubSeq(text, 1, title_match - 1)
                        ELSE text
        authors == _parse_authors(authors_text)
    IN CleanBibEntry(authors, title, YearOf(text), publisher, None,
                     30 + (IF year_match # 0 THEN 30 ELSE 0)
                        + (IF Truthy(title) THEN 30 ELSE 0)
                        + (IF Truthy(publisher) THEN 10 ELSE 0)
                        + (IF authors # <<>> THEN 10 ELSE 0))

\* a plausible slip: the sum started at 0, without the base of 0.3
_parse_author_year_style_no_base(text, order) ==
    LET year_match == YearSearch(text)
        title_match == QuotedSearch(text)
        title == AuthorYearTitle(text)
        publisher == _extract_publisher(text, order)
        authors_text == IF year_match # 0 THEN SubSeq(text, 1, year_match - 1)
                        ELSE IF title_match # 0 THEN SubSeq(text, 1, title_match - 1)
                        ELSE text
        authors == _parse_authors(authors_text)
    IN CleanBibEntry(authors, title, YearOf(text), publisher, None,
                     (IF year_match # 0 THEN 20 ELSE 0)
                     + (IF Truthy(title) THEN 30 ELSE 0)
                     + (IF Truthy(publisher) THEN 10 ELSE 0)
                     + (IF authors # <<>> THEN 10 ELSE 0))

\* BibliographyCleaner._parse_author_year_style
_parse_author_year_style(text, order) ==
    LET year_match == YearSearch(text)
        title_match == QuotedSearch(text)
        title == AuthorYearTitle(text)
        publisher == _extract_publisher(text, order)
        authors_text == IF year_match # 0 THEN SubSeq(text, 1, year_match - 1)
                        ELSE IF title_match # 0 THEN SubSeq(text, 1, title_match - 1)
                        ELSE text
        authors == _parse_authors(authors_text)
        confidence == 30 + (IF year_match # 0 THEN 20 ELSE 0)
                         + (IF Truthy(title) THEN 30 ELSE 0)
                         + (IF Truthy(publisher) THEN 10 ELSE 0)
                         + (IF authors # <<>> THEN 10 ELSE 0)
    IN CleanBibEntry(authors, title, YearOf(text), publisher, None,
                     IF confidence < 100 THEN confidence ELSE 100)

\* BibliographyCleaner._parse_fallback
_parse_fallback(text, order) ==
    LET year == YearOf(text)
        authors == _extract_basic_authors(text)
        publisher == _extract_publisher(text, order)
    IN CleanBibEntry(authors, None, year, publisher, None,
                     IF year # NoInt \/ authors # <<>> \/ Truthy(publisher) THEN 20 ELSE 10)

\* the list `strategies` of clean_entry
strategies == <<"_parse_ieee_style", "_parse_apa_style", "_parse_author_year_style", "_parse_fallback">>

\* strategy(text)
Strategy(strategy, text, order) ==
    IF strategy = "_parse_ieee_style" THEN _parse_ieee_style(text)
    ELSE IF strategy = "_parse_apa_style" THEN _parse_apa_style(text)
    ELSE IF strategy = "_parse_author_year_style" THEN _parse_author_year_style(text, order)
    ELSE _parse_fallback(text, order)

\* line 59: not raw_text or len(raw_text.strip()) < 10
TooShortBelow20(raw_text) == raw_text = <<>> \/ Len(Strip(raw_text)) < 20
TooShort(raw_text) == raw_text = <<>> \/ Len(Strip(raw_text)) < 10

\* line 79: result.confidence > best_confidence
BeatsBest(result, confidence) == result.confidence > confidence

\* line 84: result.confidence > 0.9
GoodEnoughFrom90(result) == result.confidence >= 90
GoodEnough(result) == result.confidence > 90

\* line 92: best_result.raw_text = raw_text
SetRawTextNormalized(result, raw_text, text) == [result EXCEPT !.raw_text = text]
SetRawText(result, raw_text, text) == [result EXCEPT !.raw_text = raw_text]

\* lines 78-85, one pass of the loop with the result of the strategy:
\* best_result (a tuple of no result, None, or of one), best_confidence,
\* and whether the loop breaks
LoopBody(result, best, confidence) ==
    [best_result |-> IF BeatsBest(result, confidence) THEN <<result>> ELSE best,
     best_confidence |-> IF BeatsBest(result, confidence) THEN result.confidence ELSE confidence,
     break |-> GoodEnough(result)]

\* lines 96-100: the entry of the last resort
LastResort(raw_text, text) ==
    CleanBibEntry(_extract_basic_authors(text), None, NoInt, None, raw_text, 10)

(***************************************************************************)
(* parsers.py: BibliographyParser, the segmentation of a subsection        *)
(***************************************************************************)
\* BibliographyEntry(raw_text=...); publisher, edition, pages and entry_type
\* are never set.  authors is None or a list that is not empty: None is
\* written <<>>.
BibliographyEntry(raw_text) ==
    [raw_text |-> raw_text, authors |-> <<>>, title |-> None, year |-> NoInt, url |-> None]

\* re.match(r'^[A-Z][a-z]+,', line)
SurnameCommaAt(line) ==
    LET e == CHOOSE j \in 2..(Len(line) + 1) :
                 /\ \A i \in 2..(j - 1) : IsLower(line[i])
                 /\ j > Len(line) \/ ~IsLower(line[j])
    IN Len(line) >= 3 /\ IsUpper(line[1]) /\ e > 2 /\ LitAt(line, e, <<",">>, FALSE)

\* re.match(r'^[A-Z][a-z]+,\s+[A-Z]\.', line)
SurnameInitialAt(line) ==
    LET c == FirstChar(line, 1, ",")
        w == SkipSpace(line, c + 1)
    IN SurnameCommaAt(line) /\ w > c + 1 /\ w + 1 <= Len(line)
       /\ IsUpper(line[w]) /\ line[w + 1] = "."

\* re.search(r'[\.\d{4}]\s*$', s): the class holds '.', the digits and the
\* braces; '$' also stands before a final newline
EndsComplete(s) ==
    LET last == LastNonSpaceBefore(s, Len(s) + 1)
    IN last # 0 /\ (s[last] \in {".", "{", "}"} \/ IsDigit(s[last]))

\* BibliographyParser._is_new_entry_start
_is_new_entry_start(line, current_entry) ==
    \/ current_entry = <<>>
    \/ SurnameCommaAt(line)
    \/ SurnameInitialAt(line)
    \/ EndsComplete(Strip(current_entry))

\* re.search(r'\((\d{4})\)', s): where the match starts, 0 without one
ParenYearSearch(s) ==
    LET at == {i \in 1..Len(s) :
                  LitAt(s, i, <<"(">>, FALSE) /\ FourDigitsAt(s, i + 1) /\ LitAt(s, i + 5, <<")">>, FALSE)}
    IN IF at = {} THEN 0 ELSE MinOf(at)

\* 'https?://[^\s\)]+' matched at index i: the index of its last character,
\* 0 when it does not match there
UrlEndAt(s, i) ==
    LET http == <<"h", "t", "t", "p">>
        slashes == <<":", "/", "/">>
        b == IF LitAt(s, i + 4, <<"s">>, FALSE) /\ LitAt(s, i + 5, slashes, FALSE) THEN i + 8
             ELSE IF LitAt(s, i + 4, slashes, FALSE) THEN i + 7
             ELSE 0
    IN IF ~LitAt(s, i, http, FALSE) \/ b = 0 \/ b > Len(s) THEN 0
       ELSE IF IsSpace(s[b]) \/ s[b] = ")" THEN 0
       ELSE ExpandRight(s, b, Whitespace \cup {")"})

\* re.search(r'https?://[^\s\)]+', s).group(0), None without a match
UrlOf(s) ==
    LET at == {i \in 1..Len(s) : UrlEndAt(s, i) # 0}
    IN IF at = {} THEN None ELSE SubSeq(s, MinOf(at), UrlEndAt(s, MinOf(at)))

\* re.sub(r'\.$', '', s)
SubFinalDot(s) ==
    LET n == Len(s)
    IN IF n >= 1 /\ s[n] = "." THEN SubSeq(s, 1, n - 1)
       ELSE IF n >= 2 /\ s[n] = "\n" /\ s[n - 1] = "." THEN SubSeq(s, 1, n - 2) \o <<"\n">>
       ELSE s

\* '\s+y\s+|\s*,\s*(?=[A-Z])': the index after a match that starts at index
\* p, 0 when none starts there
EntrySeparatorEnd(s, p) ==
    LET e == SkipSpace(s, p)
        f == SkipSpace(s, e + 1)
    IN IF e > p /\ LitAt(s, e, <<"y">>, FALSE) /\ f > e + 1 THEN f
       ELSE IF LitAt(s, e, <<",">>, FALSE) /\ f <= Len(s) /\ IsUpper(s[f]) THEN f
       ELSE 0

RECURSIVE EntrySplitFrom(_, _)
\* re.split(r'\s+y\s+|\s*,\s*(?=[A-Z])', s): the pieces from index b on
EntrySplitFrom(s, b) ==
    LET at == {p \in b..Len(s) : EntrySeparatorEnd(s, p) # 0}
    IN IF at = {} THEN <<SubSeq(s, b, Len(s))>>
       ELSE <<SubSeq(s, b, MinOf(at) - 1)>> \o EntrySplitFrom(s, EntrySeparatorEnd(s, MinOf(at)))

RECURSIVE StripAll(_)
\* [x.strip() for x in parts if x.strip()]
StripAll(parts) ==
    IF parts = <<>> THEN <<>>
    ELSE (IF Strip(Head(parts)) # <<>> THEN <<Strip(Head(parts))>> ELSE <<>>)
         \o StripAll(Tail(parts))

\* lines 510-523: entry.authors
EntryAuthors(text) ==
    LET year_match == ParenYearSearch(text)
        author_text == IF year_match # 0 THEN Strip(SubSeq(text, 1, year_match - 1)) ELSE text
    IN IF author_text = <<>> THEN <<>>
       ELSE FirstN(StripAll(EntrySplitFrom(Strip(SubFinalDot(author_text)), 1)), 5)

\* lines 526-537: entry.title
EntryTitle(text, authors, year) ==
    LET year_match == ParenYearSearch(text)
        last_author == authors[Len(authors)]
        author_end == FirstLit(text, last_author, FALSE) + Len(last_author)
        title_text == IF authors # <<>> /\ year # NoInt /\ year # SomeInt(0)
                      THEN SubSeq(text, author_end, year_match - 1)
                      ELSE text
        punctuation == Whitespace \cup {",", "."}
        cleaned == StripChars(title_text, punctuation)
    IN IF Len(cleaned) > 3 THEN Strip(cleaned) ELSE None

\* line 493: not text or len(text) < 10
EntryTooShortStripped(text) == Len(Strip(text)) < 3
EntryTooShort(text) == Len(text) < 10

\* BibliographyParser._parse_single_entry: a tuple of no entry (None) or one
_parse_single_entry(text, entry_type) ==
    IF EntryTooShort(text) THEN <<>>
    ELSE LET year_match == ParenYearSearch(text)
             year == IF year_match = 0 THEN NoInt
                     ELSE SomeInt(ParseNumber(SubSeq(text, year_match + 1, year_match + 4)))
             authors == EntryAuthors(text)
         IN << [BibliographyEntry(Strip(text)) EXCEPT
                   !.year = year,
                   !.url = UrlOf(text),
                   !.authors = authors,
                   !.title = EntryTitle(text, authors, year)] >>

RECURSIVE SplitOn(_, _, _)
\* s.split(c) from index b on
SplitOn(s, b, c) ==
    LET q == FirstChar(s, b, c)
    IN IF q = 0 THEN <<SubSeq(s, b, Len(s))>>
       ELSE <<SubSeq(s, b, q - 1)>> \o SplitOn(s, q + 1, c)

\* lines 453-457 and 464-467: the buffer, when it is not empty, is parsed
\* and the entry, when there is one, appended
FlushEntry(current_entry, entries, entry_type) ==
    IF current_entry = <<>> THEN entries
    ELSE entries \o _parse_single_entry(current_entry, entry_type)

\* a plausible slip: the buffer is replaced by the new line without being
\* parsed
EntriesLoopBodyNoFlush(line, current_entry, entries, entry_type) ==
    IF _is_new_entry_start(line, current_entry)
    THEN [current_entry |-> line, entries |-> entries]
    ELSE [current_entry |-> current_entry \o <<" ">> \o line, entries |-> entries]

\* the body of the loop of lines 450-461 for one line: the buffer and the
\* entries after it
EntriesLoopBody(line, current_entry, entries, entry_type) ==
    IF _is_new_entry_start(line, current_entry)
    THEN [current_entry |-> line, entries |-> FlushEntry(current_entry, entries, entry_type)]
    ELSE [current_entry |-> current_entry \o <<" ">> \o line, entries |-> entries]

\* line 447: [line.strip() for line in text.split('\n') if line.strip()]
EntryLines(text) == StripAll(SplitOn(text, 1, "\n"))

(***************************************************************************)
(* parsers.py: ContentParser, the sections of a document                   *)
(***************************************************************************)
\* the accented O of DESCRIPCI[OÓ]N and METODOL[OÓ]GICAS, in both cases
OAcute == "U+00D3"
oAcute == "U+00F3"

\* the class [OÓ] inside a header word
OClass == "[O]"

\* the class [ií] inside a label
IAcute == "U+00CD"
iAcute == "U+00ED"
IClass == "[i]"

\* the word stands at index i of s under re.IGNORECASE
WordAt(s, i, word) ==
    /\ i >= 1
    /\ i + Len(word) - 1 <= Len(s)
    /\ \A k \in 1..Len(word) :
          IF word[k] = OClass
          THEN s[i + k - 1] \in {"O", "o", OAcute, oAcute}
          ELSE IF word[k] = IClass
          THEN s[i + k - 1] \in {"I", "i", IAcute, iAcute}
          ELSE ToLower(s[i + k - 1]) = ToLower(word[k])

RECURSIVE WordsEnd(_, _, _)
\* 'W1\s+W2\s+...' matched at index i: the index after it, 0 without a match
WordsEnd(s, i, words) ==
    IF ~WordAt(s, i, Head(words)) THEN 0
    ELSE LET e == i + Len(Head(words))
         IN IF Len(words) = 1 THEN e
            ELSE IF SkipSpace(s, e) = e THEN 0
            ELSE WordsEnd(s, SkipSpace(s, e), Tail(words))

\* 'NUMERAL\s*\.\s*W1\s+W2...' matched at index i: the index after it, 0
\* without a match
HeaderPrefixEnd(s, i, numeral, words) ==
    IF ~WordAt(s, i, numeral) THEN 0
    ELSE LET dot == SkipSpace(s, i + Len(numeral))
         IN IF ~LitAt(s, dot, <<".">>, FALSE) THEN 0
            ELSE WordsEnd(s, SkipSpace(s, dot + 1), words)

\* the header followed by '\s*\n': the final \s*\n takes the whitespace run
\* up to its last newline
SectionHeaderEnd(s, i, numeral, words) ==
    LET run == HeaderPrefixEnd(s, i, numeral, words)
    IN IF run = 0 THEN 0
       ELSE LET nl == {j \in run..(SkipSpace(s, run) - 1) : s[j] = "\n"}
            IN IF nl = {} THEN 0
               ELSE 1 + CHOOSE x \in nl : \A y \in nl : y <= x

DESCRIPCION == <<"D", "E", "S", "C", "R", "I", "P", "C", "I", OClass, "N">>
RESULTADOS == <<"R", "E", "S", "U", "L", "T", "A", "D", "O", "S">>
APRENDIZAJE == <<"A", "P", "R", "E", "N", "D", "I", "Z", "A", "J", "E">>
CONTENIDOS == <<"C", "O", "N", "T", "E", "N", "I", "D", "O", "S">>
ESTRATEGIAS == <<"E", "S", "T", "R", "A", "T", "E", "G", "I", "A", "S">>
METODOLOGICAS == <<"M", "E", "T", "O", "D", "O", "L", OClass, "G", "I", "C", "A", "S">>
EVALUATIVAS == <<"E", "V", "A", "L", "U", "A", "T", "I", "V", "A", "S">>
BIBLIOGRAF == <<"B", "I", "B", "L", "I", "O", "G", "R", "A", "F">>

\* the section patterns of ContentParser in the order of the document: the
\* header, and the header prefix of the lookahead that ends the section
SectionPatterns ==
    <<[numeral |-> <<"I">>, words |-> <<DESCRIPCION, <<"D", "E", "L">>, <<"C", "U", "R", "S", "O">>>>,
       next_numeral |-> <<"I", "I">>, next_word |-> RESULTADOS],
      [numeral |-> <<"I", "I">>, words |-> <<RESULTADOS, <<"D", "E">>, APRENDIZAJE>>,
       next_numeral |-> <<"I", "I", "I">>, next_word |-> CONTENIDOS],
      [numeral |-> <<"I", "I", "I">>, words |-> <<CONTENIDOS>>,
       next_numeral |-> <<"I", "V">>, next_word |-> ESTRATEGIAS],
      [numeral |-> <<"I", "V">>, words |-> <<ESTRATEGIAS, METODOLOGICAS>>,
       next_numeral |-> <<"V">>, next_word |-> ESTRATEGIAS],
      [numeral |-> <<"V">>, words |-> <<ESTRATEGIAS, EVALUATIVAS>>,
       next_numeral |-> <<"V", "I">>, next_word |-> BIBLIOGRAF]>>

\* $ without re.MULTILINE holds at index i: the end of the text, or just
\* before its final newline
AtEnd(s, i) == i = Len(s) + 1 \/ (i = Len(s) /\ s[i] = "\n")

\* the lookahead (?=NEXT|$) of section pattern k holds at index i
SectionStops(s, i, k) ==
    \/ AtEnd(s, i)
    \/ HeaderPrefixEnd(s, i, SectionPatterns[k].next_numeral, <<SectionPatterns[k].next_word>>) # 0

NoSpan == [found |-> FALSE, from |-> 0, to |-> 0]

\* re.search of section pattern k with re.IGNORECASE | re.DOTALL: the span
\* of group(1), from the index of its first character to the index after
\* its last one
SectionSpan(text, k) ==
    LET starts == {i \in 1..Len(text) :
                      SectionHeaderEnd(text, i, SectionPatterns[k].numeral, SectionPatterns[k].words) # 0}
    IN IF starts = {} THEN NoSpan
       ELSE [found |-> TRUE,
             from |-> SectionHeaderEnd(text, MinOf(starts), SectionPatterns[k].numeral,
                                       SectionPatterns[k].words),
             to |-> MinOf({e \in SectionHeaderEnd(text, MinOf(starts), SectionPatterns[k].numeral,
                                                  SectionPatterns[k].words)..(Len(text) + 1) :
                              SectionStops(text, e, k)})]

\* group(1) of the match of section pattern k, None without a match
SectionText(text, k) ==
    IF SectionSpan(text, k).found
    THEN SubSeq(text, SectionSpan(text, k).from, SectionSpan(text, k).to - 1)
    ELSE None

(***************************************************************************)
(* models.py: ContenidoItem; parsers.py: ContentParser.extract_contenidos  *)
(***************************************************************************)
\* ContenidoItem(numero=numero, titulo=titulo): no description, and no
\* subsections (a dict is a function; the empty dict is <<>>)
ContenidoItem(numero, titulo) ==
    [numero |-> numero, titulo |-> titulo, descripcion |-> None, subsecciones |-> <<>>]

RECURSIVE NumeroEnd(_, _, _)
\* '\d+(\.\d+){depth - 1}' matched at index i: the index after it, 0 without
\* a match
NumeroEnd(s, i, depth) ==
    IF SkipDigits(s, i) = i THEN 0
    ELSE IF depth = 1 THEN SkipDigits(s, i)
    ELSE IF ~LitAt(s, SkipDigits(s, i), <<".">>, FALSE) THEN 0
    ELSE NumeroEnd(s, SkipDigits(s, i) + 1, depth - 1)

NoLineMatch == [ok |-> FALSE, numero |-> <<>>, titulo |-> <<>>]

\* the last index in a..b where no newline stands, 0 when there is none
LastNotNewline(line, a, b) ==
    LET at == {p \in a..b : line[p] # "\n"}
    IN IF at = {} THEN 0 ELSE CHOOSE x \in at : \A y \in at : y <= x

\* the tail '\s*\.\s*([^\n]+)' after the number that ends before index e:
\* [^\n]+ needs one character, which \s* gives back when it took them all
NumberedTail(line, e) ==
    LET dot == SkipSpace(line, e)
        t == SkipSpace(line, dot + 1)
        g == IF t <= Len(line) THEN t ELSE LastNotNewline(line, dot + 1, Len(line))
        nl == FirstChar(line, g, "\n")
    IN IF ~LitAt(line, dot, <<".">>, FALSE) \/ g = 0
       THEN NoLineMatch
       ELSE [ok |-> TRUE, numero |-> SubSeq(line, 1, e - 1),
             titulo |-> SubSeq(line, g, (IF nl = 0 THEN Len(line) + 1 ELSE nl) - 1)]

\* the patterns of lines 169-173 by their index: re.match(patterns[k], line)
\* with groups (1) and (2).  The number is '\d+', '\d+\.\d+', '\d+\.\d+\.\d+'
ContenidoMatch(line, k) ==
    IF NumeroEnd(line, 1, k) = 0 THEN NoLineMatch
    ELSE NumberedTail(line, NumeroEnd(line, 1, k))

\* lines 185-187: the first pattern of the list that matches, 0 when none
FirstPattern(line) ==
    IF ContenidoMatch(line, 1).ok THEN 1
    ELSE IF ContenidoMatch(line, 2).ok THEN 2
    ELSE IF ContenidoMatch(line, 3).ok THEN 3
    ELSE 0

\* d[key] = value on a dict
DictSet(d, key, value) ==
    [k \in DOMAIN d \cup {key} |-> IF k = key THEN value ELSE d[k]]

\* numero.split('.')
NumeroParts(numero) == SplitOn(numero, 1, ".")

\* a plausible slip: dict.setdefault, the first node of a number is kept
StoreContenidoFirstWins(st, numero, titulo) ==
    IF Len(NumeroParts(numero)) # 1 THEN st
    ELSE [contenidos |-> IF numero \in DOMAIN st.contenidos THEN st.contenidos
                         ELSE DictSet(st.contenidos, numero, ContenidoItem(numero, titulo)),
          current_main |-> numero,
          current_sub |-> None]

\* lines 188-213 for a match: the dict, current_main and current_sub after
\* the branch the number of parts selects
StoreContenido(st, numero, titulo) ==
    LET parts == NumeroParts(numero)
        sub_num == IF Len(parts) >= 2 THEN parts[1] \o <<".">> \o parts[2] ELSE <<>>
    IN IF Len(parts) = 1
       THEN [contenidos |-> DictSet(st.contenidos, numero, ContenidoItem(numero, titulo)),
             current_main |-> numero,
             current_sub |-> None]
       ELSE IF Len(parts) = 2 /\ Truthy(st.current_main)
       THEN IF parts[1] \in DOMAIN st.contenidos
            THEN [st EXCEPT
                    !.contenidos[parts[1]].subsecciones =
                        DictSet(@, numero, ContenidoItem(numero, titulo)),
                    !.current_sub = numero]
            ELSE st
       ELSE IF Len(parts) = 3 /\ Truthy(st.current_main) /\ Truthy(st.current_sub)
       THEN IF /\ parts[1] \in DOMAIN st.contenidos
               /\ sub_num \in DOMAIN st.contenidos[parts[1]].subsecciones
            THEN [st EXCEPT
                    !.contenidos[parts[1]].subsecciones[sub_num].subsecciones =
                        DictSet(@, numero, ContenidoItem(numero, titulo))]
            ELSE st
       ELSE st

\* lines 180-215, one pass of the loop over the lines
ContenidosLoopBody(st, raw_line) ==
    LET line == Strip(raw_line)
    IN IF line = <<>> \/ FirstPattern(line) = 0 THEN st
       ELSE StoreContenido(st, ContenidoMatch(line, FirstPattern(line)).numero,
                           Strip(ContenidoMatch(line, FirstPattern(line)).titulo))

(***************************************************************************)
(* parsers.py: BibliographyParser._extract_bibliography_section and        *)
(* InstitutionalParser, the last two sections of a document                *)
(***************************************************************************)
BIBLIOGRAFIA == <<"B", "I", "B", "L", "I", "O", "G", "R", "A", "F", "I", "A">>
PONTIFICIA == <<"P", "O", "N", "T", "I", "F", "I", "C", "I", "A">>
UNIVERSIDAD == <<"U", "N", "I", "V", "E", "R", "S", "I", "D", "A", "D">>
CATOLICA == <<"C", "A", "T", "O", "L", "I", "C", "A">>
CHILE == <<"C", "H", "I", "L", "E">>

\* end_patterns, lines 402-407, in the order of the list
end_patterns ==
    <<PONTIFICIA \o <<" ">> \o UNIVERSIDAD,
      <<"F", "A", "C", "U", "L", "T", "A", "D", " ", "D", "E">>,
      <<"E", "S", "C", "U", "E", "L", "A", " ", "D", "E">>,
      <<"I", "N", "S", "T", "I", "T", "U", "T", "O", " ", "D", "E">>>>

\* lines 409-413: the index in bib_text where the first pattern of the list
\* that occurs first stands, Len(bib_text) + 1 when none occurs
BibliographyEnd(bib_text) ==
    IF FirstLit(bib_text, end_patterns[1], TRUE) # 0 THEN FirstLit(bib_text, end_patterns[1], TRUE)
    ELSE IF FirstLit(bib_text, end_patterns[2], TRUE) # 0 THEN FirstLit(bib_text, end_patterns[2], TRUE)
    ELSE IF FirstLit(bib_text, end_patterns[3], TRUE) # 0 THEN FirstLit(bib_text, end_patterns[3], TRUE)
    ELSE IF FirstLit(bib_text, end_patterns[4], TRUE) # 0 THEN FirstLit(bib_text, end_patterns[4], TRUE)
    ELSE Len(bib_text) + 1

\* where 'VI\s*\.\s*BIBLIOGRAFIA' first matches in the text
BibliographyStarts(text) ==
    {i \in 1..Len(text) : HeaderPrefixEnd(text, i, <<"V", "I">>, <<BIBLIOGRAFIA>>) # 0}

\* the span of the text that _extract_bibliography_section keeps, before
\* the strip of line 415
BibliographySpan(text) ==
    IF BibliographyStarts(text) = {} THEN NoSpan
    ELSE [found |-> TRUE,
          from |-> MinOf(BibliographyStarts(text)),
          to |-> MinOf(BibliographyStarts(text)) - 1
                 + BibliographyEnd(SubSeq(text, MinOf(BibliographyStarts(text)), Len(text)))]

\* BibliographyParser._extract_bibliography_section
_extract_bibliography_section(text) ==
    IF BibliographySpan(text).found
    THEN Strip(SubSeq(text, BibliographySpan(text).from, BibliographySpan(text).to - 1))
    ELSE None

\* where 'PONTIFICIA\s+UNIVERSIDAD\s+CATOLICA\s+DE\s+CHILE' matches
InstitutionalStarts(text) ==
    {i \in 1..Len(text) :
        WordsEnd(text, i, <<PONTIFICIA, UNIVERSIDAD, CATOLICA, <<"D", "E">>, CHILE>>) # 0}

\* lines 316-323: the span of institutional_match.group(1); the lazy .*?
\* runs to the first index where $ holds
InstitutionalSpan(text) ==
    IF InstitutionalStarts(text) = {} THEN NoSpan
    ELSE [found |-> TRUE,
          from |-> MinOf(InstitutionalStarts(text)),
          to |-> MinOf({e \in WordsEnd(text, MinOf(InstitutionalStarts(text)),
                                       <<PONTIFICIA, UNIVERSIDAD, CATOLICA, <<"D", "E">>, CHILE>>)
                                ..(Len(text) + 1) : AtEnd(text, e)})]

\* the sections of a document in their fixed order: description, outcomes,
\* content outline, methodology, evaluation, bibliography, institutional
NSections == 7

\* the span of the text that the extraction of section k works on
Locate(text, k) ==
    IF k <= 5 THEN SectionSpan(text, k)
    ELSE IF k = 6 THEN BibliographySpan(text)
    ELSE InstitutionalSpan(text)

(***************************************************************************)
(* models.py: Bibliography                                                 *)
(***************************************************************************)
\* Bibliography(): the two lists, empty; no other field
Bibliography == [minima |-> <<>>, complementaria |-> <<>>]

\* a plausible slip: only the minimum list counted
total_entries_minima(b) == Len(b.minima)

\* the property total_entries, lines 42-45
total_entries(b) == Len(b.minima) + Len(b.complementaria)

(***************************************************************************)
(* parsers.py: BibliographyParser.parse and _split_bibliography_types      *)
(***************************************************************************)
MINIMA == <<"M", IClass, "n", "i", "m", "a">>
COMPLEMENTARIA == <<"C", "o", "m", "p", "l", "e", "m", "e", "n", "t", "a", "r", "i", "a">>

\* 'WORD\s*\n' matched at index i under re.IGNORECASE: the index after the
\* match, which ends with the last line break of the white space after the
\* word; 0 without a match
LabelEnd(s, i, word) ==
    IF ~WordAt(s, i, word) THEN 0
    ELSE LET breaks == {j \in (i + Len(word))..SpaceRunEnd(s, i + Len(word) - 1) : s[j] = "\n"}
         IN IF breaks = {} THEN 0
            ELSE (CHOOSE j \in breaks : \A other \in breaks : other <= j) + 1

\* re.search('WORD\s*\n', s[from - 1:], re.IGNORECASE): the first match, by
\* the indices of s
LabelSearch(s, from, word) ==
    LET starts == {i \in from..Len(s) : LabelEnd(s, i, word) # 0}
    IN IF starts = {} THEN [found |-> FALSE, start |-> 0, end |-> 0]
       ELSE [found |-> TRUE,
             start |-> CHOOSE i \in starts : \A other \in starts : i <= other,
             end |-> LabelEnd(s, CHOOSE i \in starts : \A other \in starts : i <= other, word)]

\* BibliographyParser._split_bibliography_types
_split_bibliography_types(bib_text) ==
    IF ~LabelSearch(bib_text, 1, MINIMA).found
    THEN [minima_text |-> None, complementaria_text |-> None]
    ELSE LET minima_start == LabelSearch(bib_text, 1, MINIMA).end
         IN IF LabelSearch(bib_text, minima_start, COMPLEMENTARIA).found
            THEN [minima_text |->
                     Strip(SubSeq(bib_text, minima_start,
                                  LabelSearch(bib_text, minima_start, COMPLEMENTARIA).start - 1)),
                  complementaria_text |->
                     Strip(SubSeq(bib_text,
                                  LabelSearch(bib_text, minima_start, COMPLEMENTARIA).end,
                                  Len(bib_text)))]
            ELSE [minima_text |-> Strip(SubSeq(bib_text, minima_start, Len(bib_text))),
                  complementaria_text |-> None]

RECURSIVE EntriesLoop(_, _, _, _)
\* the loop of _parse_bibliography_entries over the lines left, and the
\* flush after it
EntriesLoop(lines, current_entry, entries, entry_type) ==
    IF lines = <<>> THEN FlushEntry(current_entry, entries, entry_type)
    ELSE EntriesLoop(Tail(lines),
                     EntriesLoopBody(Head(lines), current_entry, entries, entry_type).current_entry,
                     EntriesLoopBody(Head(lines), current_entry, entries, entry_type).entries,
                     entry_type)

\* BibliographyParser._parse_bibliography_entries
_parse_bibliography_entries(text, entry_type) ==
    IF ~Truthy(text) THEN <<>>
    ELSE EntriesLoop(EntryLines(text), <<>>, <<>>, entry_type)

(***************************************************************************)
(* exporters.py: JSONExporter.export_batch                                 *)
(***************************************************************************)
\* a Course as the exporter reads it: filename and metadata.codigo
ExportedCourse(filename, codigo) == [filename |-> filename, metadata |-> [codigo |-> codigo]]

\* CourseMetadata.to_dict, models.py lines 121-127: the fields that are
\* not None, as the items of a dict
CourseMetadata_to_dict(metadata) ==
    IF metadata.codigo # None THEN <<[key |-> "codigo", value |-> metadata.codigo]>> ELSE <<>>

\* Course.to_dict, models.py lines 153-168
Course_to_dict(c) ==
    [filename |-> c.filename, metadata |-> CourseMetadata_to_dict(c.metadata)]

\* line 61: course.codigo if course.codigo else f"unknown_{course.filename}"
ExportKey(c) ==
    IF Truthy(c.metadata.codigo) THEN c.metadata.codigo
    ELSE <<"u", "n", "k", "n", "o", "w", "n", "_">> \o c.filename

\* d[key] = value on a dict kept as the sequence of its items in insertion
\* order: the value of an existing key is replaced where it stands
DictPut(d, key, value) ==
    IF \E i \in 1..Len(d) : d[i].key = key
    THEN [i \in 1..Len(d) |-> IF d[i].key = key THEN [d[i] EXCEPT !.value = value] ELSE d[i]]
    ELSE Append(d, [key |-> key, value |-> value])

(***************************************************************************)
(* scraper.py: UCCatalogScraper.run; utils.py: sanitize_filename           *)
(***************************************************************************)
\* str.upper() on one character
ToUpper(c) ==
    IF IsLower(c) THEN UpperLetters[CHOOSE k \in 1..26 : LowerLetters[k] = c] ELSE c

\* ord(c) of the characters of a url
Ord(c) ==
    IF IsUpper(c) THEN 64 + (CHOOSE k \in 1..26 : UpperLetters[k] = c)
    ELSE IF IsLower(c) THEN 96 + (CHOOSE k \in 1..26 : LowerLetters[k] = c)
    ELSE IF IsDigit(c) THEN 48 + DigitValue(c)
    ELSE IF c = "&" THEN 38
    ELSE IF c = "-" THEN 45
    ELSE IF c = "=" THEN 61
    ELSE 95

RECURSIVE StrLess(_, _)
\* a < b on two str
StrLess(a, b) ==
    IF b = <<>> THEN FALSE
    ELSE IF a = <<>> THEN TRUE
    ELSE IF Head(a) # Head(b) THEN Ord(Head(a)) < Ord(Head(b))
    ELSE StrLess(Tail(a), Tail(b))

RECURSIVE SortedList(_)
\* sorted(list(S)) of a set of str
SortedList(S) ==
    IF S = {} THEN <<>>
    ELSE LET least == CHOOSE x \in S : \A y \in S \ {x} : StrLess(x, y)
         IN <<least>> \o SortedList(S \ {least})

SiglaEq == <<"s", "i", "g", "l", "a", "=">>
DotPdf == <<".", "p", "d", "f">>

\* re.sub(r'[^\w\-_]', '_', sigla.upper())
CleanSigla(sigla) ==
    [i \in 1..Len(sigla) |->
        IF IsWord(ToUpper(sigla[i])) \/ ToUpper(sigla[i]) = "-" THEN ToUpper(sigla[i]) ELSE "_"]

\* utils.sanitize_filename: the sigla of the url, the characters after
\* 'sigla=' up to the next '&', in upper case; without one, the name made
\* of hash(url), here the url behind a mark
sanitize_filename(url) ==
    LET at == {i \in 1..Len(url) :
                  /\ LitAt(url, i, SiglaEq, FALSE)
                  /\ i + 6 <= Len(url)
                  /\ url[i + 6] # "&"}
    IN IF at = {} THEN <<"c", "a", "t", "a", "l", "o", "g", "o", "_", "hash">> \o url \o DotPdf
       ELSE LET from == MinOf(at) + 6
                amp == FirstChar(url, from, "&")
            IN CleanSigla(SubSeq(url, from, (IF amp = 0 THEN Len(url) + 1 ELSE amp) - 1)) \o DotPdf

\* extract_catalog_links, lines 46-55: the links of the catalog among those
\* found, without duplicates, sorted
CatalogLinks(found) == SortedList({found[i].url : i \in {j \in 1..Len(found) : found[j].catalog}})

\* a plausible slip: only the successes are counted
TallySuccessOnly(counts, ok) ==
    IF ok THEN [counts EXCEPT !.successful = @ + 1] ELSE counts

\* run, lines 156-159: the result of download_page_as_pdf is counted
Tally(counts, ok) ==
    IF ok THEN [counts EXCEPT !.successful = @ + 1] ELSE [counts EXCEPT !.failed = @ + 1]

(***************************************************************************)
(* models.py: InformacionInstitucional and the properties of Course;       *)
(* course_extractor.py: CourseExtractor.get_extraction_report              *)
(***************************************************************************)
\* InformacionInstitucional(): every field None
InformacionInstitucional ==
    [universidad |-> None, facultad |-> None, escuela |-> None, instituto |-> None,
     fecha |-> None, mes |-> None, anio |-> NoInt]

\* a Course whose sections extract_from_text has assigned
ExtractedCourse(filename, resultados, outline, metodos, evaluated, listed, institucional) ==
    [Course(filename) EXCEPT !.resultados_aprendizaje = resultados,
                             !.contenidos = outline,
                             !.metodologias = metodos,
                             !.evaluacion = evaluated,
                             !.bibliografia = listed,
                             !.informacion_institucional = institucional]

\* len(d) of a dict
DictLen(d) == Cardinality(DOMAIN d)

\* the properties of Course that the report reads
has_bibliography(c) == total_entries(c.bibliografia) > 0
has_complete_evaluation(c) == DictLen(c.evaluacion.items) > 0 /\ c.evaluacion.total_verificado
has_structured_content(c) == DictLen(c.contenidos) > 0

\* the numbers of a report: an int, or the float of a true division, kept
\* as the fraction num/den.  A division by 0 raises ZeroDivisionError.
IntNumber(n) == [kind |-> "int", num |-> n, den |-> 1]
TrueDiv(a, b) ==
    IF b = 0 THEN [kind |-> "ZeroDivisionError", num |-> 0, den |-> 0]
    ELSE [kind |-> "float", num |-> a, den |-> b]
Times(q, factor) == IF q.kind = "ZeroDivisionError" THEN q ELSE [q EXCEPT !.num = @ * factor]

\* (part / whole * 100) if whole > 0 else 0
Percentage(part, whole) == IF whole > 0 THEN Times(TrueDiv(part, whole), 100) ELSE IntNumber(0)

\* a plausible slip: the average taken without the test of its denominator
AverageUnguarded(sum, count) == TrueDiv(sum, count)

\* (sum / count) if count > 0 else 0
Average(sum, count) == IF count > 0 THEN TrueDiv(sum, count) ELSE IntNumber(0)

RECURSIVE SumSeq(_)
\* sum(...) of a sequence of ints
SumSeq(ns) == IF ns = <<>> THEN 0 ELSE Head(ns) + SumSeq(Tail(ns))

\* sum(1 for c in courses if flag), the flags given as a sequence
CountTrue(flags) == Cardinality({i \in 1..Len(flags) : flags[i]})

\* d[key] = d.get(key, 0) + 1, on a dict kept as the sequence of its items
\* in insertion order
Increment(d, key) ==
    IF \E i \in 1..Len(d) : d[i].key = key
    THEN [i \in 1..Len(d) |-> IF d[i].key = key THEN [d[i] EXCEPT !.value = @ + 1] ELSE d[i]]
    ELSE Append(d, [key |-> key, value |-> 1])

RECURSIVE CountAll(_, _)
\* the loop of lines 208-209 over all_errors
CountAll(d, keys) ==
    IF keys = <<>> THEN d ELSE CountAll(Increment(d, Head(keys)), Tail(keys))

RECURSIVE SortedByValue(_)
\* sorted(items, key=lambda x: x[1], reverse=True): by decreasing value,
\* items of equal value in the order they had
SortedByValue(d) ==
    IF d = <<>> THEN <<>>
    ELSE LET top == CHOOSE i \in 1..Len(d) :
                       /\ \A j \in 1..Len(d) : d[j].value <= d[i].value
                       /\ \A j \in 1..(i - 1) : d[j].value < d[i].value
         IN <<d[top]>> \o SortedByValue(SubSeq(d, 1, top - 1) \o SubSeq(d, top + 1, Len(d)))

\* items[:n]
Take(items, n) == SubSeq(items, 1, IF Len(items) < n THEN Len(items) ELSE n)

\* the number of most common errors reported
MaxCommonErrors == 5

SinClasificar == <<"S", "i", "n", " ", "c", "l", "a", "s", "i", "f", "i", "c", "a", "r">>

\* facultad or escuela or "Sin clasificar"
FacultadOf(c) ==
    IF Truthy(c.informacion_institucional.facultad) THEN c.informacion_institucional.facultad
    ELSE IF Truthy(c.informacion_institucional.escuela) THEN c.informacion_institucional.escuela
    ELSE SinClasificar

\* the dict returned, lines 191-200 and 219-245, from the courses, the
\* distribution of faculties and the counts of errors
ExtractionReport(cs, dist, counts) ==
    LET total == Len(cs)
        successful == CountTrue([i \in 1..Len(cs) |-> cs[i].extraction_success])
        with_bibliography == CountTrue([i \in 1..Len(cs) |-> has_bibliography(cs[i])])
        with_complete_eval == CountTrue([i \in 1..Len(cs) |-> has_complete_evaluation(cs[i])])
        with_structured_content == CountTrue([i \in 1..Len(cs) |-> has_structured_content(cs[i])])
        total_bib_entries == SumSeq([i \in 1..Len(cs) |-> total_entries(cs[i].bibliografia)])
        total_contenidos == SumSeq([i \in 1..Len(cs) |-> DictLen(cs[i].contenidos)])
        total_resultados == SumSeq([i \in 1..Len(cs) |-> Len(cs[i].resultados_aprendizaje)])
        total_metodologias == SumSeq([i \in 1..Len(cs) |-> Len(cs[i].metodologias)])
    IN [resumen_general |->
           [total_files |-> total,
            successful_extractions |-> successful,
            success_rate |-> Percentage(successful, total)],
        cobertura_contenido |->
           [courses_with_bibliography |-> with_bibliography,
            bibliography_coverage |-> Percentage(with_bibliography, total),
            courses_with_complete_evaluation |-> with_complete_eval,
            evaluation_coverage |-> Percentage(with_complete_eval, total),
            courses_with_structured_content |-> with_structured_content,
            structured_content_coverage |-> Percentage(with_structured_content, total)],
        estadisticas_contenido |->
           [total_bibliography_entries |-> total_bib_entries,
            avg_entries_per_course |-> Average(total_bib_entries, with_bibliography),
            total_contenidos |-> total_contenidos,
            avg_contenidos_per_course |-> Average(total_contenidos, total),
            total_resultados_aprendizaje |-> total_resultados,
            avg_resultados_per_course |-> Average(total_resultados, total),
            total_metodologias |-> total_metodologias,
            avg_metodologias_per_course |-> Average(total_metodologias, total)],
        distribucion_facultades |-> dist,
        common_errors |-> Take(SortedByValue(counts), MaxCommonErrors)]

\* the rates and averages of a report
RatesOf(report) ==
    {report.resumen_general.success_rate,
     report.cobertura_contenido.bibliography_coverage,
     report.cobertura_contenido.evaluation_coverage,
     report.cobertura_contenido.structured_content_coverage,
     report.estadisticas_contenido.avg_entries_per_course,
     report.estadisticas_contenido.avg_contenidos_per_course,
     report.estadisticas_contenido.avg_resultados_per_course,
     report.estadisticas_contenido.avg_metodologias_per_course}

\* no report yet: the result holds the report in a sequence of one
NoReport == [kind |-> "none", report |-> <<>>]

(***************************************************************************)
(* Bounds and inputs                                                       *)
(***************************************************************************)
MaxPages == 2      \* pages of a pdf
MaxErrors == 2     \* add_error calls a client makes on one Course
MaxFiles == 2      \* files the glob of extract_from_directory matches
MaxEvalLines == 3  \* lines of an evaluation section
MaxPad == 1        \* blanks before and after a raw bibliography text
MaxSubLines == 3   \* lines of a bibliography subsection
MaxContLines == 3  \* lines of a content outline
MaxBodyLines == 1  \* lines under each section header of a document
MaxListed == 2     \* entries in a list of a Bibliography
MaxReported == 3   \* courses given to get_extraction_report
MaxBibLines == 3   \* lines under the header of a bibliography section
MaxExported == 3   \* courses given to export_batch
MaxLinks == 3      \* links found on the catalog page

RECURSIVE SeqsUpTo(_, _)
\* the sequences over S of length at most n
SeqsUpTo(S, n) ==
    IF n = 0 THEN {<<>>}
    ELSE LET shorter == SeqsUpTo(S, n - 1)
         IN shorter \cup {Append(q, x) : q \in shorter, x \in S}

\* what page.extract_text() may give
PageTexts ==
    {None, <<" ">>, <<"a", " ", " ", "b">>, <<"c", "\n", " ", "\n", "\n", "d", " ">>}

Pdfs ==
    {[readable |-> FALSE, pages |-> <<>>]}
    \cup {[readable |-> TRUE, pages |-> p] : p \in SeqsUpTo(PageTexts, MaxPages)}

\* the documents of the batch runs: unreadable, without text, with text
BatchPdfs ==
    {[readable |-> FALSE, pages |-> <<>>],
     [readable |-> TRUE, pages |-> <<None>>],
     [readable |-> TRUE, pages |-> <<<<"a", " ", "b">>>>]}

FileNames == 1..MaxFiles           \* file i stands for "<i>.pdf"

ClientErrors == {"client error"}

\* the file lists a glob may give: any order, no file twice
FileLists ==
    {q \in SeqsUpTo(FileNames, MaxFiles) : \A i, j \in 1..Len(q) : i # j => q[i] # q[j]}

\* the concatenation of a sequence of texts
RECURSIVE Concat(_)
Concat(parts) == IF parts = <<>> THEN <<>> ELSE Head(parts) \o Concat(Tail(parts))

EvalHeader ==
    <<"V", ".", " ", "E", "S", "T", "R", "A", "T", "E", "G", "I", "A", "S",
      " ", "E", "V", "A", "L", "U", "A", "T", "I", "V", "A", "S", "\n">>

OtherHeader ==
    <<"i", "v", ".", " ", "E", "s", "t", "r", "a", "t", "e", "g", "i", "a",
      "s", " ", "M", "e", "t", "o", "d", "o", "l", "o", "g", "i", "c", "a",
      "s", "\n", "M", ":", " ", "1", "0", "0", "%", "\n">>

BibHeader ==
    <<"V", "I", ".", " ", "B", "I", "B", "L", "I", "O", "G", "R", "A", "F",
      "I", "A", "\n", "Z", ":", " ", "1", "0", "%", "\n">>

\* the lines an evaluation section is made of
EvalLines ==
    {<<"A", ":", " ", "3", "0", "%", "\n">>,
     <<"B", ":", " ", "3", "0", "%", "\n">>,
     <<"C", ":", " ", "4", "0", "%", "\n">>,
     <<"-", " ", "D", ":", " ", "3", "0", "%", "\n">>,
     <<Bullet, " ", "E", ":", " ", "4", "0", "%", "\n">>,
     <<"A", ":", " ", "4", "0", "%", "\n">>,
     <<"F", ":", " ", "5", "%", "\n">>}

\* documents: with or without the section header, the section's lines, and
\* with or without the bibliography header after them
EvalTexts ==
    {pre \o Concat(body) \o post :
        pre \in {<<>>, EvalHeader, OtherHeader \o EvalHeader},
        body \in SeqsUpTo(EvalLines, MaxEvalLines),
        post \in {<<>>, BibHeader}}

\* the lines a content outline is made of: numbered at the three depths,
\* with a parent or without one, a line with no number, an empty line
ContLines ==
    {<<"1", ".", " ", "A">>,
     <<"1", ".", "1", ".", " ", "B">>,
     <<"1", ".", "1", ".", "1", ".", " ", "C">>,
     <<"2", ".", "1", ".", "1", ".", " ", "D">>,
     <<"2", " ", ".", " ", "E">>,
     <<" ", "x">>,
     <<>>}

ContHeader == <<"I", "I", "I", ".", " ", "C", "O", "N", "T", "E", "N", "I", "D", "O", "S", "\n">>

NextHeader ==
    <<"\n", "I", "V", ".", " ", "E", "S", "T", "R", "A", "T", "E", "G", "I", "A", "S", "\n",
      "9", ".", " ", "Z">>

\* documents: with or without the header of the outline, its lines, and with
\* or without the header of the section after it
ContTexts ==
    {pre \o JoinWith(<<"\n">>, body) \o post :
        pre \in {<<>>, ContHeader},
        body \in SeqsUpTo(ContLines, MaxContLines),
        post \in {<<>>, NextHeader}}

\* the header lines of the seven sections, in their fixed order
SectionHeaders ==
    <<<<"I", ".", " ", "D", "E", "S", "C", "R", "I", "P", "C", "I", oAcute, "N", " ", "D", "E", "L", " ", "C", "U", "R", "S", "O", "\n">>,
      <<"I", "I", ".", " ", "R", "E", "S", "U", "L", "T", "A", "D", "O", "S", " ", "D", "E", " ", "A", "P", "R", "E", "N", "D", "I", "Z", "A", "J", "E", "\n">>,
      <<"I", "I", "I", ".", " ", "C", "O", "N", "T", "E", "N", "I", "D", "O", "S", "\n">>,
      <<"I", "V", ".", " ", "E", "S", "T", "R", "A", "T", "E", "G", "I", "A", "S", " ", "M", "E", "T", "O", "D", "O", "L", "O", "G", "I", "C", "A", "S", "\n">>,
      <<"V", ".", " ", "E", "S", "T", "R", "A", "T", "E", "G", "I", "A", "S", " ", "E", "V", "A", "L", "U", "A", "T", "I", "V", "A", "S", "\n">>,
      <<"V", "I", ".", " ", "B", "I", "B", "L", "I", "O", "G", "R", "A", "F", "I", "A", "\n">>,
      <<"P", "O", "N", "T", "I", "F", "I", "C", "I", "A", " ", "U", "N", "I", "V", "E", "R", "S", "I", "D", "A", "D", " ", "C", "A", "T", "O", "L", "I", "C", "A", " ", "D", "E", " ", "C", "H", "I", "L", "E", "\n">>>>

\* n lines of text under a header
RECURSIVE BodyLines(_)
BodyLines(n) == IF n = 0 THEN <<>> ELSE <<"a", "b", "\n">> \o BodyLines(n - 1)

RECURSIVE DocumentFrom(_, _, _)
\* the document with the headers that `present` selects, from section k on,
\* each followed by n lines
DocumentFrom(present, n, k) ==
    IF k > NSections THEN <<>>
    ELSE (IF present[k] THEN SectionHeaders[k] \o BodyLines(n) ELSE <<>>)
         \o DocumentFrom(present, n, k + 1)

\* documents: any of the seven headers present or missing, in order
Documents ==
    {DocumentFrom(present, n, 1) : present \in [1..NSections -> BOOLEAN], n \in 0..MaxBodyLines}

\* the entries that clients put in the lists of a Bibliography
ListedEntries ==
    {BibliographyEntry(<<"L", "i", ",", " ", "A", ".", " ", "(", "2", "0", "1", "5", ")", ".", " ", "D", "a", "t", "a", " ", "M", "i", "n", "i", "n", "g", ".">>),
     BibliographyEntry(<<"W", "u", " ", "y", " ", "L", "i", ",", " ", "B", ".", " ", "1", "9", "9", "9">>)}

\* the lists that clients assign to minima and complementaria
EntryLists == SeqsUpTo(ListedEntries, MaxListed)

\* the courses of a report: one that failed as a whole, one with every
\* section, one with an error, results and an unverified evaluation, one
\* with an empty faculty name
ReportedCourses ==
    {add_error(ExtractedCourse(1, <<>>, <<>>, <<>>, Evaluacion, Bibliography,
                               InformacionInstitucional),
               "Error general"),
     ExtractedCourse(2, <<<<"r", "1">>, <<"r", "2">>>>,
                     DictSet(<<>>, <<"1">>, ContenidoItem(<<"1">>, <<"A">>)),
                     <<<<"m", "1">>>>,
                     [items |-> DictSet(<<>>, <<"E", "x", "a", "m", "e", "n">>, 100),
                      total_verificado |-> TRUE, suma_porcentajes |-> 100],
                     [minima |-> <<BibliographyEntry(<<"L", "i", ",", " ", "A", ".", " ", "2", "0", "1", "5">>),
                                   BibliographyEntry(<<"W", "u", ",", " ", "B", ".", " ", "1", "9", "9", "9">>)>>,
                      complementaria |-> <<BibliographyEntry(<<"K", "i", "m", " ", "2", "0", "0", "1">>)>>],
                     [InformacionInstitucional EXCEPT !.facultad = <<"I", "n", "g">>]),
     add_error(ExtractedCourse(3, <<<<"r", "1">>>>, <<>>, <<>>,
                               [items |-> DictSet(<<>>, <<"E", "x", "a", "m", "e", "n">>, 60),
                                total_verificado |-> FALSE, suma_porcentajes |-> 60],
                               Bibliography,
                               [InformacionInstitucional EXCEPT !.escuela = <<"M", "a", "t">>]),
               "Error en bibliografia"),
     ExtractedCourse(4, <<>>, DictSet(<<>>, <<"1">>, ContenidoItem(<<"1">>, <<"A">>)), <<>>,
                     Evaluacion,
                     [minima |-> <<BibliographyEntry(<<"L", "i", ",", " ", "A", ".", " ", "2", "0", "1", "5">>)>>,
                      complementaria |-> <<>>],
                     [InformacionInstitucional EXCEPT !.facultad = <<>>])}

\* the lists of courses given to get_extraction_report, the empty one too
ReportedLists == SeqsUpTo(ReportedCourses, MaxReported)

\* the lines of a bibliography section: the two labels, the first one
\* with and without its accent, the second one in capitals and with a
\* blank after it, two references, and the name of a faculty
BibLines ==
    {<<"M", "i", "n", "i", "m", "a">>,
     <<"M", iAcute, "n", "i", "m", "a">>,
     <<"C", "O", "M", "P", "L", "E", "M", "E", "N", "T", "A", "R", "I", "A", " ">>,
     <<"L", "i", ",", " ", "A", ".", " ", "2", "0", "1", "5", ".">>,
     <<"W", "u", " ", "y", " ", "L", "i", " ", "1", "9", "9", "9">>,
     <<"F", "a", "c", "u", "l", "t", "a", "d", " ", "d", "e", " ", "I", "n", "g">>}

\* the documents given to parse: the lines under the header of section VI
\* or under no header, the institutional footer after them
BibDocuments ==
    {pre \o JoinWith(<<"\n">>, q) \o <<"\n">> \o SectionHeaders[7] :
        pre \in {<<>>, SectionHeaders[6]}, q \in SeqsUpTo(BibLines, MaxBibLines)}

\* the courses of a batch to export: with a code, with none, with an
\* empty one, from two files
ExportedCodes == {None, <<>>, <<"A", "1">>, <<"B", "2">>}
ExportedFiles == {<<"f", "1">>, <<"f", "2">>}
ExportedCourses == {ExportedCourse(f, c) : f \in ExportedFiles, c \in ExportedCodes}
ExportedBatches == SeqsUpTo(ExportedCourses, MaxExported)

\* the urls a page links to: three with the same sigla, in upper and in
\* lower case and with a second parameter, one with another sigla and one
\* with none; a link is to the catalog or to another site
ScrapedUrls ==
    {SiglaEq \o <<"A", "1">>,
     SiglaEq \o <<"a", "1">>,
     SiglaEq \o <<"A", "1", "&", "x", "=", "2">>,
     SiglaEq \o <<"B", "2">>,
     <<"x", "=", "1">>}
FoundLinks ==
    {[catalog |-> TRUE, url |-> u] : u \in ScrapedUrls}
       \cup {[catalog |-> FALSE, url |-> SiglaEq \o <<"B", "2">>]}
FoundPages == SeqsUpTo(FoundLinks, MaxLinks)

\* the files OUTPUT_DIR may hold before the run
EarlierFiles == SUBSET {<<"A", "1">> \o DotPdf, <<"B", "2">> \o DotPdf}

\* raw bibliography texts: references in the IEEE form (one with a low
\* opening quote) and in the APA form, texts with no year, title, publisher
\* or author, texts of fewer than ten characters, authors with titles, two
\* known publishers, a question mark for a quote, doubled blanks, a dash
CleanBodies ==
    {<<"L", "i", ",", " ", "A", ".", ",", " ", "\"", "D", "a", "t", "a", " ", "M", "i", "n", "i", "n", "g", "\"", ",", " ", "S", "a", "g", "e", ",", " ", "2", "0", "1", "9", ".">>,
     <<"W", "u", ",", " ", LowQuote, "A", "b", "\"", ",", " ", "A", "C", "M", ",", " ", "1", "9", "9", "9">>,
     <<"J", "o", "n", "e", "s", " ", "(", "2", "0", "1", "5", ")", ".", " ", "\"", "T", "t", "\"", ".", " ", "x">>,
     <<"J", "o", "n", "e", "s", ",", " ", "A", ".", " ", "(", "2", "0", "1", "5", ")", ".", " ", "P", "a", "t", "t", "e", "r", "n", " ", "R", "e", "c", "o", "g", "n", "i", "t", "i", "o", "n", ".", " ", "S", "p", "r", "i", "n", "g", "e", "r", ".">>,
     <<"K", "i", "m", " ", "(", "2", "0", "0", "1", ")", ".", " ", "A", "b", ".", " ", "C", "d">>,
     <<"a", ";", " ", "b", ";", " ", "c", ";", " ", "d">>,
     <<"a", "b", "c">>,
     <<"a", "b", "c", "d", "e", "f", "g", "h">>,
     <<>>,
     <<"D", "r", ".", " ", "K", "i", "m", " ", "a", "n", "d", " ", "M", "r", "s", " ", "L", "e", "e", ",", " ", "D", "e", "e", "p", " ", "L", "e", "a", "r", "n", "i", "n", "g", ",", " ", "M", "I", "T", " ", "P", "r", "e", "s", "s">>,
     <<"W", "i", "l", "e", "y", " ", "a", "n", "d", " ", "S", "a", "g", "e", ",", " ", "2", "0", "0", "1", ",", " ", "L", "i">>,
     <<"T", "t", "?", " ", "A", "b", ",", " ", " ", "O", "l", "d", " ", " ", "B", "o", "o", "k", "s">>,
     <<"z", "z", "z", "z", "z", "z", "z", "z", "z", "z">>,
     <<"L", "i", " ", EnDash, " ", "W", "u", " ", "2", "0", "1", "9", " ", "x">>,
     <<"L", "i", ",", " ", "\"", "A", "b", "\"", ",", " ", "S", "a", "g", "e", ",", " ", "2", "0", "1", "9", ",", " ", "p", ".", " ", "3">>,
     <<"K", "i", "m", " ", "(", "2", "0", "0", "1", ")", ".", " ", "A", "b", "c", "d", "e", "f", "g", ".">>,
     <<"L", "i", ",", " ", "A", ".", " ", "S", "a", "g", "e", ".", " ", "W", "i", "l", "e", "y", ",", " ", "2", "0", "0", "1">>,
     <<"D", "r", ".", " ", "L", "i", " ", "a", "n", "d", " ", "K", "i", "m", " ", "2", "0", "0", "1", " ", "a", "b", "c">>,
     <<"A", "b", "c", ";", " ", "B", "c", "d", ";", " ", "C", "d", "e", ";", " ", "D", "e", "f", ";", " ", "E", "f", "g", ";", " ", "F", "g", "h", " ", "2", "0", "0", "1">>}

\* n blanks
Blanks(n) == [i \in 1..n |-> " "]

CleanTexts ==
    {Blanks(a) \o body \o Blanks(b) : body \in CleanBodies, a \in 0..MaxPad, b \in 0..MaxPad}

RECURSIVE Reverse(_)
Reverse(s) == IF s = <<>> THEN <<>> ELSE Append(Reverse(Tail(s)), Head(s))

\* iteration orders of the set self.publishers: that of the source text and
\* its reverse
PublisherOrders == {publishers, Reverse(publishers)}

\* the lines a subsection is made of: a reference that starts with a
\* surname and ends with a period, a fragment of three characters, lines
\* that end with a letter, a digit and a brace, a blank line
SubLines ==
    {<<"L", "i", ",", " ", "A", ".", " ", "(", "2", "0", "1", "5", ")", ".", " ", "D", "a", "t", "a", " ", "M", "i", "n", "i", "n", "g", ".">>,
     <<"a", "b", "c">>,
     <<"v", "o", "l", " ", "2", ",", " ", "S", "a", "g", "e", " ", "e", "d">>,
     <<"W", "u", " ", "y", " ", "L", "i", ",", " ", "B", ".", " ", "1", "9", "9", "9">>,
     <<" ">>,
     <<" ", "s", "e", "e", " ", "h", "t", "t", "p", ":", "/", "/", "x", ".", "y", "/", "z", ")", " ", "p", "3", "}">>,
     <<"K", "i", "m", ",", " ", "p", " ", "7">>}

SubTexts == {JoinWith(<<"\n">>, q) : q \in SeqsUpTo(SubLines, MaxSubLines)}

(***************************************************************************)
(* SpecCourse: one Course, built by a client or by extract_from_file       *)
(***************************************************************************)
EvalIdle ==
    /\ ev_text = <<>>
    /\ evaluacion = Evaluacion
    /\ epc = "idle"

BatchIdle ==
    /\ pdf_files = <<>>
    /\ courses = <<>>
    /\ bi = 0
    /\ bpc = "idle"
    /\ returned = None

\* the entry field of a call that has returned nothing
NoEntry == CleanBibEntry(<<>>, None, NoInt, None, None, 0)

CleanIdle ==
    /\ arg_raw_text = <<>>
    /\ publisher_order = publishers
    /\ clean_pc = "idle"
    /\ norm_text = <<>>
    /\ next_strategy = 1
    /\ best_result = <<>>
    /\ best_confidence = 0
    /\ results = <<>>
    /\ clean_result = [kind |-> "none", entry |-> NoEntry]

SubIdle ==
    /\ sub_text = <<>>
    /\ sub_lines = <<>>
    /\ sub_i = 0
    /\ sub_current = <<>>
    /\ sub_entries = <<>>
    /\ sub_pc = "idle"

CourseIdle ==
    /\ course = Course(0)
    /\ cstage = "idle"
    /\ ctext = None
    /\ craise = 0
    /\ cescaped = FALSE

ContIdle ==
    /\ cont_text = <<>>
    /\ cont_lines = <<>>
    /\ cont_i = 0
    /\ contenidos = <<>>
    /\ current_main = None
    /\ current_sub = None
    /\ cont_pc = "idle"

SecIdle ==
    /\ sec_text = <<>>
    /\ sec_spans = <<>>
    /\ sec_pc = "idle"

BlistIdle ==
    /\ bibliography = Bibliography
    /\ total_read = NoInt
    /\ blist_pc = "idle"

ReportIdle ==
    /\ rep_courses = <<>>
    /\ rep_i = 0
    /\ all_errors = <<>>
    /\ error_counts = <<>>
    /\ facultades = <<>>
    /\ rep_result = NoReport
    /\ rep_pc = "idle"

ParseIdle ==
    /\ bp_text = <<>>
    /\ bp_section = None
    /\ bp_minima_text = None
    /\ bp_complementaria_text = None
    /\ bp_bibliography = Bibliography
    /\ bp_pc = "idle"

ExportIdle ==
    /\ exp_courses = <<>>
    /\ exp_i = 0
    /\ courses_dict = <<>>
    /\ exp_file = [kind |-> "absent", content |-> <<>>]
    /\ exp_pc = "idle"

ScrapeIdle ==
    /\ found_links = <<>>
    /\ existing_files = {}
    /\ catalog_links = <<>>
    /\ run_i = 0
    /\ tally = [successful |-> 0, failed |-> 0]
    /\ attempted = <<>>
    /\ rendered = <<>>
    /\ run_result = [kind |-> "none", value |-> FALSE]
    /\ run_pc = "idle"

DocIdle == ContIdle /\ SecIdle /\ BlistIdle /\ ReportIdle /\ ParseIdle /\ ExportIdle /\ ScrapeIdle

\* no call of the specifications up to SpecBib
OldIdle == CourseIdle /\ BatchIdle /\ EvalIdle /\ CleanIdle /\ SubIdle

\* no call but that of SpecCont
NotContIdle == OldIdle /\ SecIdle /\ BlistIdle /\ ReportIdle /\ ParseIdle /\ ExportIdle /\ ScrapeIdle

\* no call but that of SpecSec
NotSecIdle == OldIdle /\ ContIdle /\ BlistIdle /\ ReportIdle /\ ParseIdle /\ ExportIdle /\ ScrapeIdle

\* no call but that of SpecBlist
NotBlistIdle == OldIdle /\ ContIdle /\ SecIdle /\ ReportIdle /\ ParseIdle /\ ExportIdle /\ ScrapeIdle

\* no call but that of SpecReport
NotReportIdle == OldIdle /\ ContIdle /\ SecIdle /\ BlistIdle /\ ParseIdle /\ ExportIdle /\ ScrapeIdle

\* no call but that of SpecParse
NotParseIdle == OldIdle /\ ContIdle /\ SecIdle /\ BlistIdle /\ ReportIdle /\ ExportIdle /\ ScrapeIdle

\* no call but that of SpecExport
NotExportIdle == OldIdle /\ ContIdle /\ SecIdle /\ BlistIdle /\ ReportIdle /\ ParseIdle /\ ScrapeIdle

\* no call but that of SpecScrape
NotScrapeIdle == OldIdle /\ ContIdle /\ SecIdle /\ BlistIdle /\ ReportIdle /\ ParseIdle /\ ExportIdle

InitCourse ==
    /\ course \in {Course(f) : f \in FileNames}
    /\ cstage = "new"
    /\ ctext = None
    /\ craise = 0
    /\ cescaped = FALSE
    /\ BatchIdle
    /\ EvalIdle
    /\ CleanIdle
    /\ SubIdle
    /\ DocIdle

\* extractor.extract_from_file(pdf_path) on some document
ExtractFromFile ==
    /\ cstage = "new"
    /\ \E pdf \in Pdfs, raiseAt \in 0..NSteps :
          LET r == extract_from_file(course.filename, pdf, raiseAt)
              text == _extract_text_from_pdf(pdf)
          IN /\ course' = r.course
             /\ cescaped' = (r.kind = "raise")
             /\ ctext' = text
             /\ craise' = IF Truthy(text) THEN raiseAt ELSE 0
    /\ cstage' = "extracted"
    /\ UNCHANGED <<batchVars, evalVars, cleanVars, subVars, docVars>>

\* a client calls course.add_error(error)
ClientAddError ==
    /\ cstage \in {"new", "extracted", "touched"}
    /\ Len(course.extraction_errors) < MaxErrors
    /\ \E e \in ClientErrors : course' = add_error(course, e)
    /\ cstage' = "touched"
    /\ UNCHANGED <<ctext, craise, cescaped>>
    /\ UNCHANGED <<batchVars, evalVars, cleanVars, subVars, docVars>>

NextCourse == ExtractFromFile \/ ClientAddError

SpecCourse == InitCourse /\ [][NextCourse]_vars

(***************************************************************************)
(* SpecBatch: one call of extract_from_directory                           *)
(***************************************************************************)
InitBatch ==
    /\ pdf_files \in FileLists
    /\ courses = <<>>
    /\ bi = 0
    /\ bpc = "loop"
    /\ returned = None
    /\ CourseIdle
    /\ EvalIdle
    /\ CleanIdle
    /\ SubIdle
    /\ DocIdle

\* the next file of the for loop
ProcessFile ==
    /\ bpc = "loop"
    /\ bi < Len(pdf_files)
    /\ \E pdf \in BatchPdfs, raiseAt \in 0..NSteps :
          LET r == for_body(courses, pdf_files[bi + 1], pdf, raiseAt)
          IN /\ courses' = r.courses
             /\ bpc' = IF r.kind = "return" THEN "loop" ELSE "escaped"
    /\ bi' = bi + 1
    /\ UNCHANGED <<pdf_files, returned>>
    /\ UNCHANGED <<courseVars, evalVars, cleanVars, subVars, docVars>>

\* the loop is over: lines 113-126, the counts are logged and the list returned
ReturnCourses ==
    /\ bpc = "loop"
    /\ bi = Len(pdf_files)
    /\ returned' = courses
    /\ bpc' = "done"
    /\ UNCHANGED <<pdf_files, courses, bi>>
    /\ UNCHANGED <<courseVars, evalVars, cleanVars, subVars, docVars>>

NextBatch == ProcessFile \/ ReturnCourses

SpecBatch == InitBatch /\ [][NextBatch]_vars

(***************************************************************************)
(* SpecEval: one call of ContentParser.extract_evaluacion                  *)
(***************************************************************************)
InitEval ==
    /\ ev_text \in EvalTexts
    /\ evaluacion = Evaluacion
    /\ epc = "call"
    /\ CourseIdle
    /\ BatchIdle
    /\ CleanIdle
    /\ SubIdle
    /\ DocIdle

ExtractEvaluacion ==
    /\ epc = "call"
    /\ evaluacion' = extract_evaluacion(ev_text)
    /\ epc' = "done"
    /\ UNCHANGED ev_text
    /\ UNCHANGED <<courseVars, batchVars, cleanVars, subVars, docVars>>

NextEval == ExtractEvaluacion

SpecEval == InitEval /\ [][NextEval]_vars

(***************************************************************************)
(* SpecBib: one call of BibliographyCleaner.clean_entry, or one call of    *)
(* BibliographyParser._parse_bibliography_entries                          *)
(***************************************************************************)
InitClean ==
    /\ arg_raw_text \in CleanTexts
    /\ publisher_order \in PublisherOrders
    /\ clean_pc = "call"
    /\ norm_text = <<>>
    /\ next_strategy = 1
    /\ best_result = <<>>
    /\ best_confidence = 0
    /\ results = <<>>
    /\ clean_result = [kind |-> "none", entry |-> NoEntry]
    /\ SubIdle

InitEntries ==
    /\ sub_text \in SubTexts
    /\ sub_lines = <<>>
    /\ sub_i = 0
    /\ sub_current = <<>>
    /\ sub_entries = <<>>
    /\ sub_pc = "call"
    /\ CleanIdle

InitBib ==
    /\ InitClean \/ InitEntries
    /\ CourseIdle
    /\ BatchIdle
    /\ EvalIdle
    /\ DocIdle

\* clean_entry, lines 59-74: the text is too short, or it is normalized
CleanEntryCall ==
    /\ clean_pc = "call"
    /\ IF TooShort(arg_raw_text)
       THEN /\ clean_result' = [kind |-> "return",
                                 entry |-> CleanBibEntry(<<>>, None, NoInt, None, arg_raw_text, 0)]
            /\ clean_pc' = "done"
            /\ norm_text' = norm_text
       ELSE /\ norm_text' = _normalize_text(arg_raw_text)
            /\ clean_pc' = "loop"
            /\ clean_result' = clean_result
    /\ UNCHANGED <<arg_raw_text, publisher_order, next_strategy, best_result, best_confidence, results>>
    /\ UNCHANGED <<courseVars, batchVars, evalVars, subVars, docVars>>

\* what the call of a strategy may give: its result, or an exception
StrategyOutcomes(strategy, text, order) ==
    {[strategy |-> strategy, raised |-> FALSE, result |-> Strategy(strategy, text, order)],
     [strategy |-> strategy, raised |-> TRUE, result |-> NoEntry]}

\* clean_entry, lines 76-89: one pass of the loop
CleanEntryStrategy ==
    /\ clean_pc = "loop"
    /\ \E outcome \in StrategyOutcomes(strategies[next_strategy], norm_text, publisher_order) :
          LET after == IF outcome.raised
                       THEN [best_result |-> best_result, best_confidence |-> best_confidence,
                             break |-> FALSE]
                       ELSE LoopBody(outcome.result, best_result, best_confidence)
          IN /\ results' = Append(results, outcome)
             /\ best_result' = after.best_result
             /\ best_confidence' = after.best_confidence
             /\ IF after.break \/ next_strategy = Len(strategies)
                THEN clean_pc' = "after" /\ next_strategy' = next_strategy
                ELSE clean_pc' = "loop" /\ next_strategy' = next_strategy + 1
    /\ UNCHANGED <<arg_raw_text, publisher_order, norm_text, clean_result>>
    /\ UNCHANGED <<courseVars, batchVars, evalVars, subVars, docVars>>

\* clean_entry, lines 91-100: the best result, or the entry of the last
\* resort, whose _extract_basic_authors may raise as it may have in
\* _parse_fallback
CleanEntryReturn ==
    /\ clean_pc = "after"
    /\ IF best_result # <<>>
       THEN clean_result' = [kind |-> "return",
                             entry |-> SetRawText(best_result[1], arg_raw_text, norm_text)]
       ELSE \E raised \in BOOLEAN :
               clean_result' = IF raised THEN [kind |-> "raise", entry |-> NoEntry]
                               ELSE [kind |-> "return", entry |-> LastResort(arg_raw_text, norm_text)]
    /\ clean_pc' = "done"
    /\ UNCHANGED <<arg_raw_text, publisher_order, norm_text, next_strategy, best_result,
                   best_confidence, results>>
    /\ UNCHANGED <<courseVars, batchVars, evalVars, subVars, docVars>>

\* _parse_bibliography_entries(text, "minima") up to the loop
ParseEntriesCall ==
    /\ sub_pc = "call"
    /\ IF sub_text = <<>>
       THEN sub_pc' = "done" /\ sub_lines' = sub_lines
       ELSE sub_pc' = "loop" /\ sub_lines' = EntryLines(sub_text)
    /\ UNCHANGED <<sub_text, sub_i, sub_current, sub_entries>>
    /\ UNCHANGED <<courseVars, batchVars, evalVars, cleanVars, docVars>>

\* one pass of the loop over `lines`
ParseEntriesLine ==
    /\ sub_pc = "loop"
    /\ sub_i < Len(sub_lines)
    /\ LET after == EntriesLoopBody(sub_lines[sub_i + 1], sub_current, sub_entries, "minima")
       IN /\ sub_current' = after.current_entry
          /\ sub_entries' = after.entries
    /\ sub_i' = sub_i + 1
    /\ UNCHANGED <<sub_text, sub_lines, sub_pc>>
    /\ UNCHANGED <<courseVars, batchVars, evalVars, cleanVars, docVars>>

\* the last entry is flushed and the list returned
ParseEntriesReturn ==
    /\ sub_pc = "loop"
    /\ sub_i = Len(sub_lines)
    /\ sub_entries' = FlushEntry(sub_current, sub_entries, "minima")
    /\ sub_pc' = "done"
    /\ UNCHANGED <<sub_text, sub_lines, sub_i, sub_current>>
    /\ UNCHANGED <<courseVars, batchVars, evalVars, cleanVars, docVars>>

NextBib ==
    \/ CleanEntryCall
    \/ CleanEntryStrategy
    \/ CleanEntryReturn
    \/ ParseEntriesCall
    \/ ParseEntriesLine
    \/ ParseEntriesReturn

SpecBib == InitBib /\ [][NextBib]_vars

(***************************************************************************)
(* Properties of Course and CourseExtractor                                *)
(***************************************************************************)
\* the fields the section extractions fill
FieldOf(c, k) == c[Steps[k]]

\* C1: on every Course, fresh, after any number of add_error calls and after
\* extract_from_file has returned it, extraction_success is false exactly
\* when extraction_errors is not empty.
C1_SuccessIffNoErrors ==
    cstage # "idle" =>
        (course.extraction_success = FALSE <=> course.extraction_errors # <<>>)

C1_Witness ==
    /\ cstage = "touched"
    /\ Len(course.extraction_errors) = 2
    /\ ~Truthy(ctext)

\* C2: extract_from_file ends by returning a Course, never by an exception
\* reaching its caller, whether the text could not be read, was empty, or a
\* section parser raised.
C2_NoExceptionEscapes == cstage = "extracted" => ~cescaped

C2_Witness ==
    /\ cstage = "extracted"
    /\ craise > 0
    /\ ~cescaped

\* C3: when _extract_text_from_pdf gives no text (None or ''), the returned
\* record is failed, holds exactly one error, and every section field still
\* has its default.
C3_NoTextSkipsEverything ==
    (cstage = "extracted" /\ ~Truthy(ctext)) =>
        /\ course.extraction_success = FALSE
        /\ course.extraction_errors = <<NoTextError>>
        /\ \A k \in 1..NSteps : FieldOf(course, k) = Default

C3_Witness ==
    /\ cstage = "extracted"
    /\ ctext = <<>>
    /\ course.extraction_errors = <<NoTextError>>

\* C4 as stated: with the text obtained the record is successful, without
\* errors, whatever failed in a section extraction, and every section
\* extraction has run.
C4_TextMeansSuccess ==
    (cstage = "extracted" /\ Truthy(ctext)) =>
        /\ course.extraction_success = TRUE
        /\ course.extraction_errors = <<>>
        /\ \A k \in 1..NSteps : FieldOf(course, k) = Parsed(Steps[k], ctext)

\* C4 as amended: with the text obtained the record is successful exactly
\* when no section extraction raised; when extraction k raises, the record is
\* failed with the single error "Error procesando <file>: <exception>", the
\* extractions before k keep their results and k and the later ones are
\* skipped.
C4_SuccessIffNoParserRaised ==
    (cstage = "extracted" /\ Truthy(ctext)) =>
        /\ course.extraction_success = (craise = 0)
        /\ course.extraction_errors =
              IF craise = 0 THEN <<>>
              ELSE <<<<"Error procesando", course.filename, Steps[craise]>>>>
        /\ \A k \in 1..NSteps :
              FieldOf(course, k) =
                 IF craise = 0 \/ k < craise THEN Parsed(Steps[k], ctext) ELSE Default

C4_Witness ==
    /\ cstage = "extracted"
    /\ Truthy(ctext)
    /\ craise = 4
    /\ ~course.extraction_success
    /\ course.descripcion # Default
    /\ course.metodologias = Default

\* C5: extract_from_directory takes every matched file once and in order,
\* goes on after a failed document, returns one Course per file, and a later
\* document never changes the record of an earlier one.
C5_OneCoursePerFile ==
    /\ [](/\ bpc # "escaped"
          /\ bpc \in {"loop", "done"} =>
                /\ Len(courses) = bi
                /\ \A i \in 1..Len(courses) : courses[i].filename = pdf_files[i]
          /\ bpc = "done" =>
                /\ returned = courses
                /\ Len(returned) = Len(pdf_files))
    /\ [][\A i \in 1..Len(courses) :
             Len(courses') >= i /\ courses'[i] = courses[i]]_vars

C5_Witness ==
    /\ bpc = "done"
    /\ Len(returned) = 2
    /\ ~returned[1].extraction_success
    /\ returned[2].extraction_success

(***************************************************************************)
(* Properties of the evaluation scheme                                     *)
(***************************************************************************)
\* the stored percentages, as a bag: how many items carry each value
WeightCount(items, v) == Cardinality({k \in DOMAIN items : items[k] = v})

\* C10: after extract_evaluacion has returned, with the section present or
\* not, suma_porcentajes is the sum of the stored percentages and
\* total_verificado is true exactly when that sum lies within 0.1 of 100;
\* stored weights 30, 30, 40 give true and 30, 30, 30 give false.
C10_TotalVerificado ==
    epc = "done" =>
        LET suma == SumValues(evaluacion.items)
            three == Cardinality(DOMAIN evaluacion.items) = 3
        IN /\ evaluacion.suma_porcentajes = suma
           /\ evaluacion.total_verificado = (suma = 100)
           /\ (/\ three
               /\ WeightCount(evaluacion.items, 30) = 2
               /\ WeightCount(evaluacion.items, 40) = 1) => evaluacion.total_verificado
           /\ (three /\ WeightCount(evaluacion.items, 30) = 3) => ~evaluacion.total_verificado

C10_Witness ==
    /\ epc = "done"
    /\ Cardinality(DOMAIN evaluacion.items) = 3
    /\ WeightCount(evaluacion.items, 30) = 2
    /\ WeightCount(evaluacion.items, 40) = 1
    /\ evaluacion.total_verificado

(***************************************************************************)
(* SpecCont: one call of ContentParser.extract_contenidos                  *)
(***************************************************************************)
InitCont ==
    /\ cont_text \in ContTexts
    /\ cont_lines = <<>>
    /\ cont_i = 0
    /\ contenidos = <<>>
    /\ current_main = None
    /\ current_sub = None
    /\ cont_pc = "call"
    /\ NotContIdle

\* extract_contenidos, lines 154-177: without the section the empty dict is
\* returned, else the stripped section is split into lines
ContenidosCall ==
    /\ cont_pc = "call"
    /\ IF SectionText(cont_text, 3) = None
       THEN /\ cont_pc' = "done"
            /\ cont_lines' = cont_lines
       ELSE /\ cont_pc' = "loop"
            /\ cont_lines' = SplitOn(Strip(SectionText(cont_text, 3)), 1, "\n")
    /\ UNCHANGED <<cont_text, cont_i, contenidos, current_main, current_sub>>
    /\ UNCHANGED notContVars

\* lines 179-215: one pass of the loop
ContenidosLine ==
    /\ cont_pc = "loop"
    /\ cont_i < Len(cont_lines)
    /\ \E st \in {ContenidosLoopBody([contenidos |-> contenidos, current_main |-> current_main,
                                       current_sub |-> current_sub], cont_lines[cont_i + 1])} :
          /\ contenidos' = st.contenidos
          /\ current_main' = st.current_main
          /\ current_sub' = st.current_sub
    /\ cont_i' = cont_i + 1
    /\ UNCHANGED <<cont_text, cont_lines, cont_pc>>
    /\ UNCHANGED notContVars

\* line 217: return contenidos
ContenidosReturn ==
    /\ cont_pc = "loop"
    /\ cont_i = Len(cont_lines)
    /\ cont_pc' = "done"
    /\ UNCHANGED <<cont_text, cont_lines, cont_i, contenidos, current_main, current_sub>>
    /\ UNCHANGED notContVars

NextCont ==
    \/ ContenidosCall
    \/ ContenidosLine
    \/ ContenidosReturn

SpecCont == InitCont /\ [][NextCont]_vars

(***************************************************************************)
(* SpecSec: the extractions of extract_from_file locate their sections in  *)
(* one document, in the order of the sections                              *)
(***************************************************************************)
InitSec ==
    /\ sec_text \in Documents
    /\ sec_spans = <<>>
    /\ sec_pc = "loop"
    /\ NotSecIdle

\* the next extraction searches the text for its section
LocateSection ==
    /\ sec_pc = "loop"
    /\ Len(sec_spans) < NSections
    /\ sec_spans' = Append(sec_spans, Locate(sec_text, Len(sec_spans) + 1))
    /\ UNCHANGED <<sec_text, sec_pc>>
    /\ UNCHANGED notSecVars

\* all the sections have been searched for
LocateDone ==
    /\ sec_pc = "loop"
    /\ Len(sec_spans) = NSections
    /\ sec_pc' = "done"
    /\ UNCHANGED <<sec_text, sec_spans>>
    /\ UNCHANGED notSecVars

NextSec ==
    \/ LocateSection
    \/ LocateDone

SpecSec == InitSec /\ [][NextSec]_vars

(***************************************************************************)
(* SpecBlist: one Bibliography; clients append to its lists, assign them   *)
(* and read total_entries                                                  *)
(***************************************************************************)
InitBlist ==
    /\ bibliography = Bibliography
    /\ total_read = NoInt
    /\ blist_pc = "live"
    /\ NotBlistIdle

\* bibliography.minima.append(entry)
AppendMinima ==
    /\ blist_pc = "live"
    /\ Len(bibliography.minima) < MaxListed
    /\ \E entry \in ListedEntries :
          bibliography' = [bibliography EXCEPT !.minima = Append(@, entry)]
    /\ UNCHANGED <<total_read, blist_pc>>
    /\ UNCHANGED notBlistVars

\* bibliography.complementaria.append(entry)
AppendComplementaria ==
    /\ blist_pc = "live"
    /\ Len(bibliography.complementaria) < MaxListed
    /\ \E entry \in ListedEntries :
          bibliography' = [bibliography EXCEPT !.complementaria = Append(@, entry)]
    /\ UNCHANGED <<total_read, blist_pc>>
    /\ UNCHANGED notBlistVars

\* bibliography.minima = entries, as in parsers.py line 384
AssignMinima ==
    /\ blist_pc = "live"
    /\ \E entries \in EntryLists :
          bibliography' = [bibliography EXCEPT !.minima = entries]
    /\ UNCHANGED <<total_read, blist_pc>>
    /\ UNCHANGED notBlistVars

\* bibliography.complementaria = entries, as in parsers.py line 387
AssignComplementaria ==
    /\ blist_pc = "live"
    /\ \E entries \in EntryLists :
          bibliography' = [bibliography EXCEPT !.complementaria = entries]
    /\ UNCHANGED <<total_read, blist_pc>>
    /\ UNCHANGED notBlistVars

\* a read of bibliography.total_entries
ReadTotalEntries ==
    /\ blist_pc = "live"
    /\ total_read' = SomeInt(total_entries(bibliography))
    /\ UNCHANGED <<bibliography, blist_pc>>
    /\ UNCHANGED notBlistVars

NextBlist ==
    \/ AppendMinima
    \/ AppendComplementaria
    \/ AssignMinima
    \/ AssignComplementaria
    \/ ReadTotalEntries

SpecBlist == InitBlist /\ [][NextBlist]_vars

(***************************************************************************)
(* get_extraction_report on a list of courses (SpecReport)                 *)
(***************************************************************************)
InitReport ==
    /\ rep_courses \in ReportedLists
    /\ rep_i = 0
    /\ all_errors = <<>>
    /\ error_counts = <<>>
    /\ facultades = <<>>
    /\ rep_result = NoReport
    /\ rep_pc = "errors"
    /\ NotReportIdle

\* lines 203-205: all_errors.extend(course.extraction_errors), one course
ReportCollectErrors ==
    /\ rep_pc = "errors"
    /\ rep_i < Len(rep_courses)
    /\ all_errors' = all_errors \o rep_courses[rep_i + 1].extraction_errors
    /\ rep_i' = rep_i + 1
    /\ UNCHANGED <<rep_courses, error_counts, facultades, rep_result, rep_pc>>
    /\ UNCHANGED notReportVars

\* lines 207-209: the errors counted
ReportCountErrors ==
    /\ rep_pc = "errors"
    /\ rep_i = Len(rep_courses)
    /\ error_counts' = CountAll(<<>>, all_errors)
    /\ rep_i' = 0
    /\ rep_pc' = "facultades"
    /\ UNCHANGED <<rep_courses, all_errors, facultades, rep_result>>
    /\ UNCHANGED notReportVars

\* lines 212-217: one course counted under its faculty
ReportCountFacultad ==
    /\ rep_pc = "facultades"
    /\ rep_i < Len(rep_courses)
    /\ facultades' = Increment(facultades, FacultadOf(rep_courses[rep_i + 1]))
    /\ rep_i' = rep_i + 1
    /\ UNCHANGED <<rep_courses, all_errors, error_counts, rep_result, rep_pc>>
    /\ UNCHANGED notReportVars

\* lines 191-200 and 219-245: the dict is built and returned, unless one of
\* its divisions raises
ReportReturn ==
    /\ rep_pc = "facultades"
    /\ rep_i = Len(rep_courses)
    /\ rep_result' =
          IF \E rate \in RatesOf(ExtractionReport(rep_courses, facultades, error_counts)) :
                rate.kind = "ZeroDivisionError"
          THEN [kind |-> "raise", report |-> <<>>]
          ELSE [kind |-> "return",
                report |-> <<ExtractionReport(rep_courses, facultades, error_counts)>>]
    /\ rep_pc' = "done"
    /\ UNCHANGED <<rep_courses, rep_i, all_errors, error_counts, facultades>>
    /\ UNCHANGED notReportVars

NextReport ==
    \/ ReportCollectErrors
    \/ ReportCountErrors
    \/ ReportCountFacultad
    \/ ReportReturn

SpecReport == InitReport /\ [][NextReport]_vars

(***************************************************************************)
(* BibliographyParser.parse on a document (SpecParse)                      *)
(***************************************************************************)
InitParse ==
    /\ bp_text \in BibDocuments
    /\ bp_section = None
    /\ bp_minima_text = None
    /\ bp_complementaria_text = None
    /\ bp_bibliography = Bibliography
    /\ bp_pc = "call"
    /\ NotParseIdle

\* lines 372-377: the section is looked for; without it the empty
\* Bibliography is returned
ParseFindSection ==
    /\ bp_pc = "call"
    /\ bp_section' = _extract_bibliography_section(bp_text)
    /\ bp_pc' = IF Truthy(_extract_bibliography_section(bp_text)) THEN "split" ELSE "done"
    /\ UNCHANGED <<bp_text, bp_minima_text, bp_complementaria_text, bp_bibliography>>
    /\ UNCHANGED notParseVars

\* line 380
ParseSplit ==
    /\ bp_pc = "split"
    /\ bp_minima_text' = _split_bibliography_types(bp_section).minima_text
    /\ bp_complementaria_text' = _split_bibliography_types(bp_section).complementaria_text
    /\ bp_pc' = "minima"
    /\ UNCHANGED <<bp_text, bp_section, bp_bibliography>>
    /\ UNCHANGED notParseVars

\* lines 383-384
ParseMinima ==
    /\ bp_pc = "minima"
    /\ bp_bibliography' =
          IF Truthy(bp_minima_text)
          THEN [bp_bibliography EXCEPT
                   !.minima = _parse_bibliography_entries(bp_minima_text, "minima")]
          ELSE bp_bibliography
    /\ bp_pc' = "complementaria"
    /\ UNCHANGED <<bp_text, bp_section, bp_minima_text, bp_complementaria_text>>
    /\ UNCHANGED notParseVars

\* lines 386-387
ParseComplementaria ==
    /\ bp_pc = "complementaria"
    /\ bp_bibliography' =
          IF Truthy(bp_complementaria_text)
          THEN [bp_bibliography EXCEPT
                   !.complementaria =
                      _parse_bibliography_entries(bp_complementaria_text, "complementaria")]
          ELSE bp_bibliography
    /\ bp_pc' = "return"
    /\ UNCHANGED <<bp_text, bp_section, bp_minima_text, bp_complementaria_text>>
    /\ UNCHANGED notParseVars

\* line 389
ParseReturn ==
    /\ bp_pc = "return"
    /\ bp_pc' = "done"
    /\ UNCHANGED <<bp_text, bp_section, bp_minima_text, bp_complementaria_text, bp_bibliography>>
    /\ UNCHANGED notParseVars

NextParse ==
    \/ ParseFindSection
    \/ ParseSplit
    \/ ParseMinima
    \/ ParseComplementaria
    \/ ParseReturn

SpecParse == InitParse /\ [][NextParse]_vars

(***************************************************************************)
(* SpecExport: one call of JSONExporter.export_batch                       *)
(***************************************************************************)
InitExport ==
    /\ exp_courses \in ExportedBatches
    /\ exp_i = 0
    /\ courses_dict = <<>>
    /\ exp_file = [kind |-> "absent", content |-> <<>>]
    /\ exp_pc = "call"
    /\ NotExportIdle

\* lines 55-59: the directory is made, or mkdir raises and the exception is
\* logged and raised again (lines 74-76)
ExportBatchCall ==
    /\ exp_pc = "call"
    /\ exp_pc' \in {"loop", "raised"}
    /\ UNCHANGED <<exp_courses, exp_i, courses_dict, exp_file>>
    /\ UNCHANGED notExportVars

\* lines 60-62: one pass of the loop
ExportBatchCourse ==
    /\ exp_pc = "loop"
    /\ exp_i < Len(exp_courses)
    /\ courses_dict' = DictPut(courses_dict, ExportKey(exp_courses[exp_i + 1]),
                               Course_to_dict(exp_courses[exp_i + 1]))
    /\ exp_i' = exp_i + 1
    /\ UNCHANGED <<exp_courses, exp_file, exp_pc>>
    /\ UNCHANGED notExportVars

\* lines 64-72: the dict is written to the file; when open or json.dump
\* raises the file is as it was or holds a part of the text, and the
\* exception is logged and raised again
ExportBatchDump ==
    /\ exp_pc = "loop"
    /\ exp_i = Len(exp_courses)
    /\ \/ exp_pc' = "done" /\ exp_file' = [kind |-> "written", content |-> courses_dict]
       \/ exp_pc' = "raised" /\ exp_file' \in {exp_file, [kind |-> "partial", content |-> <<>>]}
    /\ UNCHANGED <<exp_courses, exp_i, courses_dict>>
    /\ UNCHANGED notExportVars

NextExport ==
    \/ ExportBatchCall
    \/ ExportBatchCourse
    \/ ExportBatchDump

SpecExport == InitExport /\ [][NextExport]_vars

(***************************************************************************)
(* SpecScrape: one call of UCCatalogScraper.run                            *)
(***************************************************************************)
InitScrape ==
    /\ found_links \in FoundPages
    /\ existing_files \in EarlierFiles
    /\ catalog_links = <<>>
    /\ run_i = 0
    /\ tally = [successful |-> 0, failed |-> 0]
    /\ attempted = <<>>
    /\ rendered = <<>>
    /\ run_result = [kind |-> "none", value |-> FALSE]
    /\ run_pc = "call"
    /\ NotScrapeIdle

\* run, lines 128-136: the browser is launched and closed, or run returns
\* False
RunCheckPlaywright ==
    /\ run_pc = "call"
    /\ \/ run_pc' = "links" /\ run_result' = run_result
       \/ run_pc' = "done" /\ run_result' = [kind |-> "return", value |-> FALSE]
    /\ UNCHANGED <<found_links, existing_files, catalog_links, run_i, tally, attempted, rendered>>
    /\ UNCHANGED notScrapeVars

\* run, lines 138-143: extract_catalog_links gives the sorted links, or the
\* empty list when the request fails; without links run returns False
RunExtractLinks ==
    /\ run_pc = "links"
    /\ \E links \in {CatalogLinks(found_links), <<>>} :
          /\ catalog_links' = links
          /\ IF links = <<>>
             THEN run_pc' = "done" /\ run_result' = [kind |-> "return", value |-> FALSE]
             ELSE run_pc' = "loop" /\ run_result' = run_result
    /\ UNCHANGED <<found_links, existing_files, run_i, tally, attempted, rendered>>
    /\ UNCHANGED notScrapeVars

\* run, lines 152-159, one pass of the loop with its call of
\* download_page_as_pdf (lines 75-120): True at once when the file exists;
\* else the page is rendered, and the call gives True with the file
\* written, or False after an exception, with the file written or not
RunDownload ==
    /\ run_pc = "loop"
    /\ run_i < Len(catalog_links)
    /\ LET url == catalog_links[run_i + 1]
       IN /\ attempted' = Append(attempted, url)
          /\ IF sanitize_filename(url) \in existing_files
             THEN /\ tally' = Tally(tally, TRUE)
                  /\ UNCHANGED <<existing_files, rendered>>
             ELSE /\ rendered' = Append(rendered, url)
                  /\ \E ok \in BOOLEAN :
                        /\ tally' = Tally(tally, ok)
                        /\ existing_files' \in
                              IF ok THEN {existing_files \cup {sanitize_filename(url)}}
                              ELSE {existing_files, existing_files \cup {sanitize_filename(url)}}
    /\ run_i' = run_i + 1
    /\ UNCHANGED <<found_links, catalog_links, run_result, run_pc>>
    /\ UNCHANGED notScrapeVars

\* run, lines 161-175: the report is written and run returns whether a
\* download succeeded, or writing the report raises
RunReport ==
    /\ run_pc = "loop"
    /\ run_i = Len(catalog_links)
    /\ run_result' \in {[kind |-> "return", value |-> tally.successful > 0],
                         [kind |-> "raise", value |-> FALSE]}
    /\ run_pc' = "done"
    /\ UNCHANGED <<found_links, existing_files, catalog_links, run_i, tally, attempted, rendered>>
    /\ UNCHANGED notScrapeVars

NextScrape ==
    \/ RunCheckPlaywright
    \/ RunExtractLinks
    \/ RunDownload
    \/ RunReport

SpecScrape == InitScrape /\ [][NextScrape]_vars

(***************************************************************************)
(* Properties of the bibliography cleaner and of the segmentation          *)
(***************************************************************************)
\* clean_entry has returned an entry
CleanReturned == clean_pc = "done" /\ clean_result.kind = "return"

\* pass k of the loop got a result, and its confidence
GotResult(k) == ~results[k].raised
ConfidenceOf(k) == results[k].result.confidence

\* the pass whose result is the best: the highest confidence, the earliest
\* pass among equals
BestPass ==
    CHOOSE w \in 1..Len(results) :
        /\ GotResult(w)
        /\ \A j \in 1..Len(results) :
              GotResult(j) =>
                 \/ ConfidenceOf(j) < ConfidenceOf(w)
                 \/ ConfidenceOf(j) = ConfidenceOf(w) /\ w <= j

\* C6: the loop of clean_entry calls the strategies in the order IEEE, APA,
\* author-year, fallback.  A pass is followed by another one unless it was
\* the fourth or its result had a confidence above 0.9; a result of exactly
\* 0.9 does not end the loop.  A result above 0.9 is the one returned;
\* otherwise the result returned is the one with the highest confidence
\* among those the strategies gave, the earliest of them when several share
\* it.
C6_OrderEarlyExitAndBest ==
    /\ \A k \in 1..Len(results) : results[k].strategy = strategies[k]
    /\ \A k \in 1..Len(results) :
          k < Len(results) => results[k].raised \/ ConfidenceOf(k) <= 90
    /\ clean_pc = "loop" => Len(results) = next_strategy - 1
    /\ clean_pc \in {"after", "done"} /\ results # <<>> =>
          \/ Len(results) = Len(strategies)
          \/ GotResult(Len(results)) /\ ConfidenceOf(Len(results)) > 90
    /\ \A k \in 1..Len(results) :
          /\ clean_pc \in {"after", "done"}
          /\ GotResult(k)
          /\ ConfidenceOf(k) = 90
          /\ k < Len(strategies)
          => Len(results) > k
    /\ /\ clean_pc = "done"
       /\ \E k \in 1..Len(results) : GotResult(k) /\ ConfidenceOf(k) > 0
       => /\ clean_result.kind = "return"
          /\ clean_result.entry = [results[BestPass].result EXCEPT !.raw_text = arg_raw_text]
          /\ ConfidenceOf(Len(results)) > 90 => BestPass = Len(results)

\* the APA and the author-year strategy both gave 0.9, all four strategies
\* were called, and the entry returned is the one of the APA strategy
C6_Witness ==
    /\ CleanReturned
    /\ Len(results) = 4
    /\ \A k \in 1..4 : GotResult(k)
    /\ ConfidenceOf(2) = 90
    /\ ConfidenceOf(3) = 90
    /\ results[2].result # results[3].result
    /\ clean_result.entry = [results[2].result EXCEPT !.raw_text = arg_raw_text]

\* C7 as stated: every entry clean_entry returns has a confidence of at
\* least 0.1
C7_EveryEntryAtLeastTenth ==
    CleanReturned => clean_result.entry.confidence >= 10

\* no year, title, publisher or author was extracted
NothingExtracted(entry) ==
    /\ entry.authors = <<>>
    /\ entry.title = None
    /\ entry.year = NoInt
    /\ entry.publisher = None

\* C7, corrected: an entry returned for a text whose stripped length is at
\* least 10 has a confidence of at least 0.1, also when nothing was
\* extracted; for a shorter text the entry returned has confidence 0 and
\* nothing extracted.
C7_AtLeastTenthFromTenCharacters ==
    CleanReturned =>
        IF Len(Strip(arg_raw_text)) >= 10
        THEN clean_result.entry.confidence >= 10
        ELSE clean_result.entry.confidence = 0 /\ NothingExtracted(clean_result.entry)

\* a text of ten characters or more went through the strategies and the
\* entry returned holds nothing but raw_text
C7_Witness ==
    /\ CleanReturned
    /\ Len(Strip(arg_raw_text)) >= 10
    /\ Len(results) = 4
    /\ NothingExtracted(clean_result.entry)
    /\ clean_result.entry.confidence >= 10

\* the step flushes the buffer: the loop ends, or its pass starts a new
\* entry with the line
FlushesBuffer ==
    /\ sub_pc = "loop"
    /\ sub_current # <<>>
    /\ \/ sub_pc' = "done"
       \/ sub_i' = sub_i + 1 /\ sub_current' = sub_lines[sub_i + 1]

\* C8: the entry clean_entry returns has the argument as its raw_text,
\* whatever normalization made of it and whichever way the entry was built;
\* an entry that segmentation appends has the buffer it was built from as
\* its raw_text.
C8_RawTextPreserved ==
    /\ [](CleanReturned => clean_result.entry.raw_text = arg_raw_text)
    /\ [][sub_entries' # sub_entries =>
             /\ FlushesBuffer
             /\ Len(sub_entries') = Len(sub_entries) + 1
             /\ SubSeq(sub_entries', 1, Len(sub_entries)) = sub_entries
             /\ sub_entries'[Len(sub_entries')].raw_text = sub_current]_vars

\* normalization changed the text, a strategy gave the entry returned, and
\* its raw_text is the argument
C8_Witness ==
    /\ CleanReturned
    /\ norm_text # arg_raw_text
    /\ best_result # <<>>
    /\ clean_result.entry.raw_text = arg_raw_text
    /\ clean_result.entry.title # None

\* C9 as stated: a fragment of fewer than 10 characters yields no entry,
\* neither in segmentation nor in classification
C9_ShortFragmentYieldsNoEntry ==
    /\ clean_pc = "done" /\ Len(Strip(arg_raw_text)) < 10 => clean_result.kind # "return"
    /\ \A k \in 1..Len(sub_entries) : Len(sub_entries[k].raw_text) >= 10

\* C9, corrected: segmentation appends no entry for a buffer of fewer than
\* 10 characters, and one entry for any other buffer; clean_entry, given a
\* text whose stripped length is below 10, calls no strategy and returns an
\* entry with confidence 0, nothing extracted, and the text as raw_text.
C9_ShortFragmentDroppedOrZero ==
    /\ [](\A k \in 1..Len(sub_entries) : Len(sub_entries[k].raw_text) >= 10)
    /\ [][FlushesBuffer =>
             IF Len(sub_current) < 10 THEN sub_entries' = sub_entries
             ELSE Len(sub_entries') = Len(sub_entries) + 1]_vars
    /\ [](clean_pc = "done" /\ Len(Strip(arg_raw_text)) < 10 =>
             /\ results = <<>>
             /\ clean_result = [kind |-> "return",
                                entry |-> CleanBibEntry(<<>>, None, NoInt, None, arg_raw_text, 0)])

\* three lines gave three buffers, the second of fewer than 10 characters,
\* and the list returned holds the first and the third
C9_Witness ==
    /\ sub_pc = "done"
    /\ Len(sub_lines) = 3
    /\ Len(sub_lines[2]) < 10
    /\ Len(sub_entries) = 2
    /\ sub_entries[1].raw_text = sub_lines[1]
    /\ sub_entries[2].raw_text = sub_lines[3]

(***************************************************************************)
(* Properties of the content outline                                       *)
(***************************************************************************)
\* the loop of extract_contenidos is about to take a line numbered N.M.K
TakesDepth3Line ==
    /\ cont_pc = "loop"
    /\ cont_i < Len(cont_lines)
    /\ ContenidoMatch(Strip(cont_lines[cont_i + 1]), 3).ok

\* the node N.M of the line numbered N.M.K is in the tree
ParentRegistered(numero) ==
    /\ NumeroParts(numero)[1] \in DOMAIN contenidos
    /\ NumeroParts(numero)[1] \o <<".">> \o NumeroParts(numero)[2]
          \in DOMAIN contenidos[NumeroParts(numero)[1]].subsecciones

\* C11: a line numbered N.M.K that the loop of extract_contenidos takes
\* while the tree has no node N.M leaves the tree as it was: no node is
\* added, replaced or altered at any level.
C11_OrphanDepth3LineDropped ==
    [][TakesDepth3Line
       /\ ~ParentRegistered(ContenidoMatch(Strip(cont_lines[cont_i + 1]), 3).numero)
       => contenidos' = contenidos]_vars

(***************************************************************************)
(* Properties of the sections of a document                                *)
(***************************************************************************)
\* C12: of two sections whose headers both occur in the document, the span
\* extracted for the one that comes first in the fixed order ends at or
\* before the index where the span of the later one starts, also when
\* headers of sections between them are missing.
C12_SpansInOrder ==
    sec_pc = "done" =>
        \A a \in 1..NSections, b \in 1..NSections :
            a < b /\ sec_spans[a].found /\ sec_spans[b].found
            => sec_spans[a].to <= sec_spans[b].from

(***************************************************************************)
(* Properties of the Bibliography object                                   *)
(***************************************************************************)
\* C13: whatever appends and assignments made the lists, a read of
\* total_entries returns len(minima) + len(complementaria) of that moment;
\* the Bibliography holds the two lists and no stored total.
C13_TotalEntriesIsSumOfLengths ==
    /\ [](DOMAIN bibliography = {"minima", "complementaria"})
    /\ [][total_read' # total_read =>
             total_read' = SomeInt(Len(bibliography.minima) + Len(bibliography.complementaria))]_vars

\* a read after both lists got entries returned their number
C13_Witness ==
    /\ blist_pc = "live"
    /\ Len(bibliography.minima) = 2
    /\ Len(bibliography.complementaria) = 1
    /\ total_read = SomeInt(3)

(***************************************************************************)
(* Properties of the citation-style strategies                            *)
(***************************************************************************)
\* no character of s[a..b] is c, and all of them are white space
FreeOf(s, a, b, c) == \A j \in a..b : s[j] # c
AllSpace(s, a, b) == \A j \in a..b : IsSpace(s[j])

\* the ways of reading a text as: an author part without a quote, a comma,
\* a title between two double quotes, a comma, a publisher part without a
\* comma, a comma, and four digits; the positions are of the two quotes, of
\* the comma after the publisher and of the first digit
IeeeReadings(text) ==
    LET n == Len(text)
        Opening == {q \in 3..n :
                       /\ text[q] = "\""
                       /\ FreeOf(text, 1, q - 1, "\"")
                       /\ \E c \in 2..(q - 1) : text[c] = "," /\ AllSpace(text, c + 1, q - 1)}
        Closing(q1) == {q \in (q1 + 2)..(n - 1) :
                           /\ text[q] = "\""
                           /\ FreeOf(text, q1 + 1, q - 1, "\"")
                           /\ text[q + 1] = ","}
        Comma(q2) == {c \in (q2 + 3)..n : text[c] = "," /\ FreeOf(text, q2 + 2, c - 1, ",")}
        Year(c3) == {y \in (c3 + 1)..n : AllSpace(text, c3 + 1, y - 1) /\ FourDigitsAt(text, y)}
    IN UNION {UNION {UNION {{[q1 |-> q1, q2 |-> q2, c3 |-> c3, y |-> y] : y \in Year(c3)}
                            : c3 \in Comma(q2)}
                     : q2 \in Closing(q1)}
              : q1 \in Opening}

\* the text ends with the year of the reading: a period and white space
\* at most come after it
YearIsTrailing(text, reading) ==
    \A j \in (reading.y + 4)..Len(text) : text[j] = "." \/ IsSpace(text[j])

\* the IEEE strategy was called and returned
IeeeReturned == Len(results) >= 1 /\ ~results[1].raised

\* C14 as stated: the IEEE strategy gives 0.95 exactly when the text reads
\* as authors, quoted title, publisher and a year that ends the text, and
\* the empty entry of confidence 0 for every other text
C14_TrailingYearOnly ==
    IeeeReturned =>
       IF \E reading \in IeeeReadings(norm_text) : YearIsTrailing(norm_text, reading)
       THEN results[1].result.confidence = 95
       ELSE results[1].result = NoEntry

\* C14: the IEEE strategy gives confidence 0.95 exactly when the text
\* begins with an author part, a comma, a title in double quotes, a comma,
\* a publisher part, a comma and four digits, whatever comes after the four
\* digits; title and publisher are then the stripped parts and year the
\* number of the four digits.  For every other text it gives the entry of
\* confidence 0 with no field and no author.
C14_IeeeFormWhateverFollows ==
    IeeeReturned =>
       IF IeeeReadings(norm_text) = {}
       THEN results[1].result = NoEntry
       ELSE \A reading \in IeeeReadings(norm_text) :
               /\ results[1].result.confidence = 95
               /\ results[1].result.title =
                     Strip(SubSeq(norm_text, reading.q1 + 1, reading.q2 - 1))
               /\ results[1].result.publisher =
                     Strip(SubSeq(norm_text, reading.q2 + 2, reading.c3 - 1))
               /\ results[1].result.year =
                     SomeInt(ParseNumber(SubSeq(norm_text, reading.y, reading.y + 3)))

\* a reference whose year is followed by a page number got 0.95, year 2019
\* and the publisher Sage
C14_Witness ==
    /\ IeeeReturned
    /\ \E reading \in IeeeReadings(norm_text) : ~YearIsTrailing(norm_text, reading)
    /\ results[1].result.confidence = 95
    /\ results[1].result.year = SomeInt(2019)
    /\ results[1].result.publisher = <<"S", "a", "g", "e">>

\* the ways of reading a text as: an author part without a parenthesis,
\* four digits between parentheses, a period, a title part without a period
\* and a period; the positions are of the opening parenthesis and of the
\* period after the title
YearTitleReadings(text) ==
    LET n == Len(text)
        Opening == {p \in 2..(n - 6) :
                       /\ text[p] = "("
                       /\ FreeOf(text, 1, p - 1, "(")
                       /\ FourDigitsAt(text, p + 1)
                       /\ text[p + 5] = ")"
                       /\ text[p + 6] = "."}
        Period(p) == {d \in (p + 8)..n : text[d] = "." /\ FreeOf(text, p + 7, d - 1, ".")}
    IN UNION {{[p |-> p, d |-> d] : d \in Period(p)} : p \in Opening}

\* something other than a line break comes after the period of the title,
\* white space at most in between
HasRest(text, reading) ==
    \E j \in (reading.d + 1)..Len(text) :
        AllSpace(text, reading.d + 1, j - 1) /\ text[j] # "\n"

\* the APA strategy was called and returned
ApaReturned == Len(results) >= 2 /\ ~results[2].raised

\* C15 as stated: the APA strategy gives 0.9 exactly when the text reads as
\* an author part, a year between parentheses and ". title.", and the empty
\* entry of confidence 0 for every other text
C15_YearThenTitle ==
    ApaReturned =>
       IF YearTitleReadings(norm_text) # {}
       THEN results[2].result.confidence = 90
       ELSE results[2].result = NoEntry

\* C15: the APA strategy gives confidence 0.9 exactly when the text begins
\* with an author part, four digits between parentheses, a period, a title
\* part, a period and at least one more character; year is then the number
\* of the four digits and title the stripped title part.  For every other
\* text, one that ends with the period of the title included, it gives the
\* entry of confidence 0 with no field and no author.
C15_ApaFormNeedsRest ==
    ApaReturned =>
       IF \E reading \in YearTitleReadings(norm_text) : HasRest(norm_text, reading)
       THEN \A reading \in YearTitleReadings(norm_text) :
               /\ results[2].result.confidence = 90
               /\ results[2].result.year =
                     SomeInt(ParseNumber(SubSeq(norm_text, reading.p + 1, reading.p + 4)))
               /\ results[2].result.title =
                     Strip(SubSeq(norm_text, reading.p + 7, reading.d - 1))
       ELSE results[2].result = NoEntry

\* the Jones reference got 0.9, the year 2015 and its title
C15_Witness ==
    /\ ApaReturned
    /\ \E reading \in YearTitleReadings(norm_text) : HasRest(norm_text, reading)
    /\ results[2].result.confidence = 90
    /\ results[2].result.year = SomeInt(2015)
    /\ results[2].result.title =
          <<"P", "a", "t", "t", "e", "r", "n", " ", "R", "e", "c", "o", "g", "n", "i", "t", "i", "o", "n">>

(***************************************************************************)
(* Properties of the publisher lookup                                     *)
(***************************************************************************)
\* C16: the result of clean_entry depends on the text only, not on the
\* order in which the collection of known publishers is iterated: every
\* result a strategy gave is the one it gives under any iteration order, and
\* so is the publisher of the entry returned.
C16_SameResultWhateverTheOrder ==
    /\ \A k \in 1..Len(results) :
          GotResult(k) =>
             \A order \in PublisherOrders :
                results[k].result = Strategy(strategies[k], norm_text, order)
    /\ /\ CleanReturned
       /\ \E k \in 1..Len(results) : GotResult(k) /\ ConfidenceOf(k) > 0
       => \A order \in PublisherOrders :
             clean_result.entry.publisher =
                Strategy(strategies[BestPass], norm_text, order).publisher

(***************************************************************************)
(* Properties of the extraction report                                     *)
(***************************************************************************)
\* the courses of the list that have a bibliography entry
WithBibliography ==
    {i \in 1..Len(rep_courses) : Len(rep_courses[i].bibliografia.minima)
                                   + Len(rep_courses[i].bibliografia.complementaria) > 0}

\* C17: get_extraction_report never changes the list of courses nor a
\* Course of it, and for every list, the empty one included, it returns a
\* report and does not raise; the rate and the averages over the number of
\* courses are 0 when the list is empty, and the average of entries is 0
\* when no course has a bibliography entry.
C17_ReportReadOnlyAndZeroRates ==
    /\ [][rep_courses' = rep_courses]_vars
    /\ [](rep_pc = "done" =>
            /\ rep_result.kind = "return"
            /\ Len(rep_result.report) = 1
            /\ Len(rep_courses) = 0 =>
                  /\ rep_result.report[1].resumen_general.success_rate = IntNumber(0)
                  /\ rep_result.report[1].cobertura_contenido.bibliography_coverage = IntNumber(0)
                  /\ rep_result.report[1].cobertura_contenido.evaluation_coverage = IntNumber(0)
                  /\ rep_result.report[1].cobertura_contenido.structured_content_coverage = IntNumber(0)
                  /\ rep_result.report[1].estadisticas_contenido.avg_contenidos_per_course = IntNumber(0)
                  /\ rep_result.report[1].estadisticas_contenido.avg_resultados_per_course = IntNumber(0)
                  /\ rep_result.report[1].estadisticas_contenido.avg_metodologias_per_course = IntNumber(0)
            /\ WithBibliography = {} =>
                  rep_result.report[1].estadisticas_contenido.avg_entries_per_course = IntNumber(0))

\* a report was returned for two courses neither of which has a
\* bibliography entry: the average of entries is 0, the success rate is not
C17_Witness ==
    /\ rep_pc = "done"
    /\ Len(rep_courses) = 2
    /\ WithBibliography = {}
    /\ rep_result.kind = "return"
    /\ rep_result.report[1].estadisticas_contenido.avg_entries_per_course = IntNumber(0)
    /\ rep_result.report[1].resumen_general.success_rate.kind = "float"
    /\ all_errors # <<>>

(***************************************************************************)
(* Properties of the failures of the strategies                           *)
(***************************************************************************)
\* a strategy raised in the call, and no strategy gave a result of a
\* confidence above 0
SomeStrategyRaised == \E k \in 1..Len(results) : results[k].raised
NoStrategyResult == \A k \in 1..Len(results) : results[k].raised \/ ConfidenceOf(k) = 0

BeginsWithSurname(line) ==
    \E c \in 3..Len(line) :
        /\ line[c] = ","
        /\ IsUpper(line[1])
        /\ \A j \in 2..(c - 1) : \E n \in 1..26 : LowerLetters[n] = line[j]

\* the buffer ends in a period, and in a year of four digits
EndsInPeriod(buffer) == buffer # <<>> /\ buffer[Len(buffer)] = "."
EndsInYear(buffer) == FourDigitsAt(buffer, Len(buffer) - 3)

\* C19: a line that is not the first of an entry starts a new entry exactly
\* when it begins with a capitalized word and a comma, or the buffer ends in
\* a period or in a year of four digits; in every other case, a buffer that
\* ends in a single digit, a letter or another character, the line is
\* appended to the buffer after a blank.
C19_NewEntryOnlyAfterPeriodOrYear ==
    [][/\ sub_pc = "loop"
       /\ sub_i < Len(sub_lines)
       /\ sub_current # <<>>
       => IF \/ BeginsWithSurname(sub_lines[sub_i + 1])
             \/ EndsInPeriod(sub_current)
             \/ EndsInYear(sub_current)
          THEN sub_current' = sub_lines[sub_i + 1]
          ELSE sub_current' = sub_current \o <<" ">> \o sub_lines[sub_i + 1]]_vars

(***************************************************************************)
(* Properties of the split of a bibliography section                      *)
(***************************************************************************)
\* the lines of the section found, and those that are a label: the word
\* alone on its line, in any case
SectionLines == SplitOn(bp_section, 1, "\n")
IsLabel(line, word) == Len(Strip(line)) = Len(word) /\ WordAt(Strip(line), 1, word)
MinimumLabels == {i \in 1..Len(SectionLines) : IsLabel(SectionLines[i], MINIMA)}
FirstMinimum == CHOOSE i \in MinimumLabels : \A other \in MinimumLabels : i <= other
LaterSupplementary ==
    {i \in (FirstMinimum + 1)..Len(SectionLines) : IsLabel(SectionLines[i], COMPLEMENTARIA)}
FirstSupplementary ==
    CHOOSE i \in LaterSupplementary : \A other \in LaterSupplementary : i <= other

\* the text of the lines a..b of the section, and a part that is that text:
\* an empty part is None or the empty string
LinesText(a, b) == Strip(JoinWith(<<"\n">>, SubSeq(SectionLines, a, b)))
PartIs(part, expected) == IF expected = <<>> THEN ~Truthy(part) ELSE part = expected

\* C20: with a Minimum label and a Supplementary label after it, the
\* minimum text is what lies between the two labels and the supplementary
\* text what comes after the second; with a Minimum label and no later
\* Supplementary label, the minimum text is everything after the label and
\* the supplementary text is empty; with no Minimum label both are empty,
\* and the Bibliography returned has no entry.
C20_SplitAtTheLabels ==
    /\ bp_pc \in {"minima", "complementaria", "return"} =>
          IF MinimumLabels = {}
          THEN ~Truthy(bp_minima_text) /\ ~Truthy(bp_complementaria_text)
          ELSE IF LaterSupplementary = {}
          THEN /\ PartIs(bp_minima_text, LinesText(FirstMinimum + 1, Len(SectionLines)))
               /\ ~Truthy(bp_complementaria_text)
          ELSE /\ PartIs(bp_minima_text, LinesText(FirstMinimum + 1, FirstSupplementary - 1))
               /\ PartIs(bp_complementaria_text,
                         LinesText(FirstSupplementary + 1, Len(SectionLines)))
    /\ bp_pc = "done" /\ (~Truthy(bp_section) \/ MinimumLabels = {}) =>
          total_entries(bp_bibliography) = 0

(***************************************************************************)
(* Properties of the end of the bibliography section                      *)
(***************************************************************************)
\* where the header of section VI first stands in the document, and where
\* a marker of the institutional header stands from there on
HeaderStart == MinOf(BibliographyStarts(bp_text))
MarkerStarts ==
    {i \in HeaderStart..Len(bp_text) :
        \E k \in 1..Len(end_patterns) : WordAt(bp_text, i, end_patterns[k])}

\* C21: the section found runs from its header to the earliest place at
\* which any of the markers stands, whichever it is, or to the end of the
\* document when none does; nothing at or after that place is in it.
C21_SectionEndsAtEarliestMarker ==
    bp_pc # "call" /\ BibliographyStarts(bp_text) # {} =>
       bp_section =
          Strip(SubSeq(bp_text, HeaderStart,
                       IF MarkerStarts = {} THEN Len(bp_text) ELSE MinOf(MarkerStarts) - 1))

(***************************************************************************)
(* Properties of the nesting of the outline                               *)
(***************************************************************************)
\* the line that the loop of extract_contenidos takes next, stripped, and
\* its depth: the deepest pattern that matches it
NextContLine == Strip(cont_lines[cont_i + 1])
TakesLineOfDepth(depth) ==
    /\ cont_pc = "loop"
    /\ cont_i < Len(cont_lines)
    /\ ContenidoMatch(NextContLine, depth).ok
    /\ \A deeper \in (depth + 1)..3 : ~ContenidoMatch(NextContLine, deeper).ok

\* C22: a line numbered N.M taken while the node N exists is stored as the
\* child N.M of the node N, and a line numbered N.M.K whose two ancestors
\* exist as the child N.M.K of the node N.M; nothing else of the tree
\* changes, no node of depth 1 is created or replaced.
C22_LineStoredAtItsDepth ==
    [][/\ /\ TakesLineOfDepth(2)
          /\ NumeroParts(ContenidoMatch(NextContLine, 2).numero)[1] \in DOMAIN contenidos
          => contenidos' =
                [contenidos EXCEPT
                    ![NumeroParts(ContenidoMatch(NextContLine, 2).numero)[1]].subsecciones =
                        DictSet(@, ContenidoMatch(NextContLine, 2).numero,
                                ContenidoItem(ContenidoMatch(NextContLine, 2).numero,
                                              Strip(ContenidoMatch(NextContLine, 2).titulo)))]
       /\ /\ TakesLineOfDepth(3)
          /\ ParentRegistered(ContenidoMatch(NextContLine, 3).numero)
          => contenidos' =
                [contenidos EXCEPT
                    ![NumeroParts(ContenidoMatch(NextContLine, 3).numero)[1]]
                       .subsecciones[NumeroParts(ContenidoMatch(NextContLine, 3).numero)[1]
                                     \o <<".">>
                                     \o NumeroParts(ContenidoMatch(NextContLine, 3).numero)[2]]
                       .subsecciones =
                        DictSet(@, ContenidoMatch(NextContLine, 3).numero,
                                ContenidoItem(ContenidoMatch(NextContLine, 3).numero,
                                              Strip(ContenidoMatch(NextContLine, 3).titulo)))]
      ]_vars

\* the numbered lines of depth 1: only the first pattern matches them
IsDepth1Line(line) ==
    /\ ContenidoMatch(line, 1).ok
    /\ ~ContenidoMatch(line, 2).ok
    /\ ~ContenidoMatch(line, 3).ok

EvalSectionLines == SplitOn(Strip(EvalSection(ev_text)), 1, "\n")

\* a line without its leading dash or bullet
Unmarked(line) ==
    IF line # <<>> /\ Head(line) \in {"-", Bullet} THEN Strip(Tail(line)) ELSE line

\* the line has the form 'label: NN%', with or without the marker
IsWeightedLine(line) ==
    /\ FirstChar(Unmarked(line), 1, ":") > 1
    /\ PercentTail(Unmarked(line), FirstChar(Unmarked(line), 1, ":")).ok
    /\ PercentTail(Unmarked(line), FirstChar(Unmarked(line), 1, ":")).end
          = Len(Unmarked(line)) + 1

LabelOf(line) == Strip(SubSeq(Unmarked(line), 1, FirstChar(Unmarked(line), 1, ":") - 1))

WeightOf(line) ==
    ParseNumber(PercentTail(Unmarked(line), FirstChar(Unmarked(line), 1, ":")).pct)

\* the indexes of the section's lines of that form
WeightedLines == {i \in 1..Len(EvalSectionLines) : IsWeightedLine(EvalSectionLines[i])}

\* C23: after extract_evaluacion has returned for a document with the
\* section, the keys of the items are the labels of the lines 'label: NN%'
\* without their dash or bullet, each with the weight of the last line that
\* carries the label; when the labels are distinct there are as many items
\* as such lines and suma_porcentajes is the sum of their weights.
C23_OneItemPerWeightedLine ==
    epc = "done" /\ EvalSection(ev_text) # None =>
        /\ DOMAIN evaluacion.items = {LabelOf(EvalSectionLines[i]) : i \in WeightedLines}
        /\ \A i \in WeightedLines :
              (\A j \in WeightedLines :
                  j > i => LabelOf(EvalSectionLines[j]) # LabelOf(EvalSectionLines[i]))
              => evaluacion.items[LabelOf(EvalSectionLines[i])] = WeightOf(EvalSectionLines[i])
        /\ (\A i, j \in WeightedLines :
                i # j => LabelOf(EvalSectionLines[i]) # LabelOf(EvalSectionLines[j]))
           => /\ Cardinality(DOMAIN evaluacion.items) = Cardinality(WeightedLines)
              /\ evaluacion.suma_porcentajes
                    = SumSeq([i \in 1..Len(EvalSectionLines) |->
                                IF i \in WeightedLines THEN WeightOf(EvalSectionLines[i])
                                ELSE 0])

(***************************************************************************)
(* Properties of the confidence of an entry                               *)
(***************************************************************************)
\* what the fields of an entry are worth to the author-year strategy, in
\* hundredths
FieldsWorth(entry) ==
    30 + (IF entry.year # NoInt THEN 20 ELSE 0)
       + (IF Truthy(entry.title) THEN 30 ELSE 0)
       + (IF Truthy(entry.publisher) THEN 10 ELSE 0)
       + (IF entry.authors # <<>> THEN 10 ELSE 0)

\* C24: the confidence of a result of the author-year strategy is the
\* smaller of 1.0 and 0.3, plus 0.2 with a year, 0.3 with a title, 0.1 with
\* a publisher and 0.1 with authors; the confidence of every result a
\* strategy gave, and of the entry clean_entry returns, lies between 0 and 1.
C24_AuthorYearConfidence ==
    /\ \A k \in 1..Len(results) :
          GotResult(k) =>
             /\ ConfidenceOf(k) \in 0..100
             /\ results[k].strategy = "_parse_author_year_style" =>
                   ConfidenceOf(k) = IF FieldsWorth(results[k].result) < 100
                                     THEN FieldsWorth(results[k].result) ELSE 100
    /\ CleanReturned => clean_result.entry.confidence \in 0..100

\* the author-year strategy found all four fields: the sum reaches 1.0,
\* and the entry returned carries it
C24_Witness ==
    /\ CleanReturned
    /\ Len(results) >= 3
    /\ GotResult(3)
    /\ FieldsWorth(results[3].result) = 100
    /\ ConfidenceOf(3) = 100
    /\ clean_result.entry.confidence = 100

(***************************************************************************)
(* Properties of the list of authors                                      *)
(***************************************************************************)
RECURSIVE AppearInOrder(_, _, _)
\* the authors stand in the text from index `from` on, one after the other
AppearInOrder(authors, text, from) ==
    \/ authors = <<>>
    \/ LET at == {p \in from..Len(text) : LitAt(text, p, Head(authors), FALSE)}
       IN at # {} /\ AppearInOrder(Tail(authors), text, MinOf(at) + Len(Head(authors)))

\* the passes whose list of authors _parse_authors made: the first three
\* strategies
ParsedAuthors(k) == GotResult(k) /\ k <= 3

\* C25: a list of authors that _parse_authors returned has at most 5
\* authors, in the order in which they stand in the text, and each of
\* them, as returned, is longer than 2 characters and not a string of
\* digits.
C25_AuthorsFilteredAfterTitles ==
    \A k \in 1..Len(results) :
        ParsedAuthors(k) =>
           /\ Len(results[k].result.authors) <= 5
           /\ AppearInOrder(results[k].result.authors, norm_text, 1)
           /\ \A i \in 1..Len(results[k].result.authors) :
                 /\ Len(results[k].result.authors[i]) > 2
                 /\ ~IsNumber(results[k].result.authors[i])

(***************************************************************************)
(* Properties of the segmentation into entries                            *)
(***************************************************************************)
\* a segmentation of lines 1..n is the set of the indexes where a buffer
\* starts; the buffer that starts at s runs to the line before the next
\* start, its lines joined by single spaces
BufferEnd(starts, s, n) ==
    IF \E t \in starts : t > s THEN MinOf({t \in starts : t > s}) - 1 ELSE n

BufferAt(lines, starts, s, n) == JoinWith(<<" ">>, SubSeq(lines, s, BufferEnd(starts, s, n)))

RECURSIVE KeptBuffers(_, _, _, _)
\* the buffers from the one that starts at s on, in their order, without
\* those of fewer than 10 characters
KeptBuffers(lines, starts, s, n) ==
    IF s > n THEN <<>>
    ELSE (IF Len(BufferAt(lines, starts, s, n)) >= 10
          THEN <<BufferAt(lines, starts, s, n)>> ELSE <<>>)
         \o KeptBuffers(lines, starts, BufferEnd(starts, s, n) + 1, n)

\* the segmentations of the lines 1..n
Segmentations(n) == {{1} \cup cuts : cuts \in SUBSET (2..n)}

RawTexts(entries) == [i \in 1..Len(entries) |-> entries[i].raw_text]

\* C26: the lines taken so far are cut into buffers of consecutive lines
\* joined by single spaces; the last buffer is the one being filled, the
\* entries are the earlier buffers of 10 characters or more, in their
\* order; on return the last buffer has been flushed like the others, so
\* the entries are all the buffers of 10 characters or more of a
\* segmentation of all the lines.
C26_SegmentationConservesLines ==
    /\ sub_pc = "loop" /\ sub_i = 0 => sub_current = <<>> /\ sub_entries = <<>>
    /\ sub_pc = "loop" /\ sub_i > 0 =>
          \E starts \in Segmentations(sub_i) :
              /\ sub_current = BufferAt(sub_lines, starts, MaxOf(starts), sub_i)
              /\ RawTexts(sub_entries)
                    = KeptBuffers(sub_lines, starts \ {MaxOf(starts)}, 1, MaxOf(starts) - 1)
    /\ sub_pc = "done" =>
          IF sub_lines = <<>> THEN sub_entries = <<>>
          ELSE \E starts \in Segmentations(Len(sub_lines)) :
                  RawTexts(sub_entries) = KeptBuffers(sub_lines, starts, 1, Len(sub_lines))

\* three lines made two buffers: one of two lines, returned joined by a
\* space, and one of fewer than 10 characters, whose line is in no entry
C26_Witness ==
    /\ sub_pc = "done"
    /\ Len(sub_lines) = 3
    /\ Len(sub_entries) = 1
    /\ \E i \in 1..2 :
          sub_entries[1].raw_text = sub_lines[i] \o <<" ">> \o sub_lines[i + 1]
    /\ \E j \in 1..3 :
          /\ Len(sub_lines[j]) < 10
          /\ FirstLit(sub_entries[1].raw_text, sub_lines[j], FALSE) = 0

(***************************************************************************)
(* Properties of the floor of the confidence                              *)
(***************************************************************************)
NoStrategyRaised == \A k \in 1..Len(results) : ~results[k].raised

\* the loop ended without a best result: lines 96-100 were run
LastResortTaken == clean_pc = "done" /\ results # <<>> /\ best_result = <<>>

\* C27: when the stripped text has 10 characters or more and no strategy
\* raised, clean_entry returns an entry whose confidence is at least 0.3;
\* the last resort of lines 96-100 is taken only after a strategy raised.
C27_ThreeTenthsUnlessRaised ==
    /\ clean_pc = "done" /\ ~TooShort(arg_raw_text) /\ NoStrategyRaised =>
          /\ clean_result.kind = "return"
          /\ clean_result.entry.confidence >= 30
    /\ LastResortTaken => ~NoStrategyRaised

\* a text of 10 characters in which the four strategies, none of which
\* raised, found nothing: the entry returned has the base of the
\* author-year strategy
C27_Witness ==
    /\ CleanReturned
    /\ Len(Strip(arg_raw_text)) >= 10
    /\ Len(results) = 4
    /\ NoStrategyRaised
    /\ NothingExtracted(clean_result.entry)
    /\ clean_result.entry.confidence = 30

(***************************************************************************)
(* Properties of the exported map                                         *)
(***************************************************************************)
\* C29: the map that export_batch has written has one entry for each
\* course of the batch: as many entries as courses, and for every course
\* an entry under its key, its code or 'unknown_' and its file name, whose
\* value is the record of that course.
C29_OneEntryPerCourse ==
    exp_pc = "done" =>
        /\ exp_file.kind = "written"
        /\ Len(exp_file.content) = Len(exp_courses)
        /\ \A i \in 1..Len(exp_courses) :
              \E j \in 1..Len(exp_file.content) :
                  /\ exp_file.content[j].key = ExportKey(exp_courses[i])
                  /\ exp_file.content[j].value = Course_to_dict(exp_courses[i])

====
